---- MODULE Spec2Model ----
(***************************************************************************)
(* Picture viewer: the browser-side reconciliation engine (scan worker and *)
(* the App that applies its changesets) and the server-side thumbnail      *)
(* cache, watcher and HTTP endpoints.                                      *)
(*                                                                         *)
(* Strings that the code concatenates with "/" are sequences of segments:  *)
(* "sub/C.jpg" is <<"sub", "C.jpg">>, '' and undefined are <<>>.           *)
(* A FileSystemHandle stored in Picture.path is <<>> (it is no string).    *)
(***************************************************************************)
EXTENDS Integers, Sequences, FiniteSets, TLC

VARIABLES
    \* ---- browser: environment of the scan worker
    localFiles,     \* files under the local source's directory handle
    localAccess,    \* TRUE while the directory handle can be enumerated
    \* ---- browser: App state (IndexedDB and React state)
    pictures,       \* db.pictures
    nextId,         \* the ++id auto-increment of db.pictures
    pictureCount,   \* db.dataSources[..].pictureCount
    isScanning,
    scanProgress,
    \* ---- browser: scan worker
    wpc,            \* "idle" | "walking"
    cmd,            \* the ScanCommand being handled
    widx,           \* index of the next source of cmd.sources
    allAdds, allUpdates, allDeletes,
    outbox,         \* messages posted by the worker, not yet handled by the App
    \* ---- history of the scans (not program state)
    observed,       \* per source: what the walk of the current scan saw
    baseline,       \* command of the last applied scan, while nothing changed since
    pending,        \* command of the running scan, while nothing changed since
    scans,          \* how many scans have been started
    applied,        \* the sizes of the last changeset the App has written
    \* ---- wall clock of the browser (Date.now())
    now,
    \* ---- server: thumbnail cache
    cacheFiles,     \* the files below THUMB_CACHE_DIR, with their sizes
    cacheMetadata,  \* cacheMetadata.entries, in insertion order
    metadataFile,   \* the entries in .cache_metadata.json
    metadataPartial, \* .cache_metadata.json holds a part of a JSON text only
    listening,      \* app.listen has been called
    reqs,           \* the handlers of the thumbnail requests
    sweeps,         \* the running calls of cleanupCacheIfNeeded
    restarts,       \* how often the server process has been started again
    arrivals,       \* how many thumbnail requests have been received
    srvNow,         \* wall clock of the server (Date.now())
    \* ---- server: watcher and rescans
    srvPc,          \* "boot" until startServer has set up the watchers
    folder,         \* the watched folders: how many changes they have seen
    serverDataCache, \* the sources, and the state of the folders that was published
    isScanningServer,
    rescanTimer,    \* the handle of the last timer, 0 for null
    timers,         \* the pending timers
    timerSeq,       \* handles given out by setTimeout
    running,        \* the executions of scanServerFolders in flight
    rsNow,          \* the clock of the timers
    \* ---- history of the rescans (not program state)
    lastEvent,      \* when triggerRescan last set a timer
    bursts,         \* triggers that found no timer pending
    coalesced,      \* triggers of the current burst that replaced a pending timer
    rescans,        \* rescans started by the timer
    lastStart,      \* when the last of them started, and lastEvent then
    \* ---- server: one request to an image endpoint, seen by the path check
    pathReq, pathRes,
    \* ---- the tier of one thumbnail request, from the grid to the cache key
    tier,
    \* ---- worker: the progress values one scan command posts
    pass,
    \* ---- server: a sweep and a pregeneration batch, await by await
    pregen,
    \* ---- server: the inventory scanServerFolders publishes
    inventory,
    \* ---- app: the ids of the rows of db.dataSources
    dataSources,
    \* ---- grid: the offsets and the items of ImageGrid for one filter
    grid,
    \* ---- worker: one crawl of a remote source
    crawl,
    \* ---- server: the cache key of one picture, pregenerated and requested
    keys,
    \* ---- browser: the folders of a local source and the walk of its tree
    tree,
    \* ---- server: the inventory and the pregeneration queue that is seeded from it
    cover,
    \* ---- the browser's grid loader under filter changes
    loader,
    \* ---- server: the file server-cache.json and the writes of persistServerCache
    snap

scanEnv  == <<localFiles, localAccess>>
appVars  == <<pictures, nextId, pictureCount, isScanning, scanProgress>>
workVars == <<wpc, cmd, widx, allAdds, allUpdates, allDeletes, outbox>>
histVars == <<observed, baseline, pending, scans, applied>>
scanVars == <<scanEnv, appVars, workVars, histVars>>

thumbVars == <<cacheFiles, cacheMetadata, metadataFile, metadataPartial,
              listening, reqs, sweeps,
               srvNow, restarts, arrivals>>
rescanVars == <<srvPc, folder, serverDataCache, isScanningServer, rescanTimer, timers,
                timerSeq, running, rsNow, lastEvent, bursts, coalesced, rescans,
                lastStart>>
pathVars == <<pathReq, pathRes>>
tierVars == <<tier>>
passVars == <<pass>>
pregenVars == <<pregen>>
inventoryVars == <<inventory>>
dataSourcesVars == <<dataSources>>
gridVars == <<grid>>
crawlVars == <<crawl>>
keysVars == <<keys>>
treeVars == <<tree>>
coverVars == <<cover>>
loaderVars == <<loader>>
snapVars == <<snap>>
serverVars == <<thumbVars, rescanVars, pathVars, tierVars, passVars, pregenVars, inventoryVars, dataSourcesVars, gridVars, crawlVars, keysVars, treeVars, coverVars, loaderVars, snapVars>>

vars == <<scanVars, now, serverVars>>

----------------------------------------------------------------------------
(* Bounds of the model *)

MaxNow == 2            \* the clock stops advancing here
MaxScans == 2          \* scans started in one behaviour
MaxPictureId == 7      \* the auto-increment of db.pictures stops here

----------------------------------------------------------------------------
(* Generic helpers *)

Range(s) == {s[i] : i \in 1..Len(s)}

----------------------------------------------------------------------------
(* The configured data sources (db.dataSources) and what they hold *)

LocalSource  == [id |-> 1, type |-> "local",  name |-> "Photos", maxImages |-> 0]
\* remoteConfig: fieldMapping.modified is mapped, maxImages is not set (0)
RemoteSource == [id |-> 2, type |-> "remote", name |-> "Feed", maxImages |-> 0]

\* db.dataSources.toArray(): primary-key order
DataSources == <<LocalSource, RemoteSource>>
SourceIds   == {DataSources[i].id : i \in 1..Len(DataSources)}

\* the source lists handleRefresh is called with: every enabled source, the
\* local ones (handleGlobalRefresh), or one source (handleSyncSingleSource)
SourceLists == {DataSources, <<LocalSource>>, <<RemoteSource>>}

\* sourceIdsToScan: handleRefresh sends the ids of the sources; the worker also
\* takes a command that leaves the last of several sources out of scope
IdsOf(sources) == {sources[i].id : i \in 1..Len(sources)}
Scopes(sources) ==
    {IdsOf(sources)} \cup
    {IdsOf(sources) \ {sources[Len(sources)].id} : i \in {j \in {1} : Len(sources) > 1}}

\* the files the local directory handle can hold, in enumeration order;
\* includeSubfolders is set and no folder is disabled
FileSlots == << [relativePath |-> <<>>,      name |-> "A.jpg"],
                [relativePath |-> <<>>,      name |-> "B.jpg"],
                [relativePath |-> <<"sub">>, name |-> "C.jpg"] >>

Absent == [present |-> FALSE, lastModified |-> 0, size |-> 0]
File(m, z) == [present |-> TRUE, lastModified |-> m, size |-> z]
InitialFile == File(1, 100)

\* what can happen to each file: A.jpg stays as it is, B.jpg is rewritten
\* (another size) or touched (another timestamp), C.jpg is removed and restored
FileStates ==
    << {InitialFile},
       {InitialFile, File(1, 150), File(2, 100)},
       {InitialFile, Absent} >>

\* what the remote API answers, page by page; modified = 0: the item has no
\* value in the mapped field.  A later page is empty.
RemoteItem(u, m) == [url |-> <<u>>, name |-> u, modified |-> m]
RemotePages == << <<RemoteItem("http://u1", 5)>>, <<RemoteItem("http://u2", 0)>> >>

----------------------------------------------------------------------------
(* scan.worker: existing-record lookup (self.onmessage, first loop) *)

\* relativePath when set, else the path when it is a string, else the name
RelativeKeyPartOf(pic) ==
    IF pic.relativePath # <<>> THEN pic.relativePath
    ELSE IF pic.path # <<>> THEN pic.path
    ELSE <<pic.name>>

\* `${pic.sourceId}|${relativeKeyPart}`
ExistingKey(pic) == <<pic.sourceId, RelativeKeyPartOf(pic)>>

\* the pictures the first loop does not skip
Keyed(existing) == {p \in existing : p.sourceId # 0}

\* existingMap.has(key)
HasExisting(existing, key) == \E p \in Keyed(existing) : ExistingKey(p) = key

\* existingMap.get(key): the snapshot is in id order and a later set() of the
\* same key replaces the earlier one
GetExisting(existing, key) ==
    LET c == {p \in Keyed(existing) : ExistingKey(p) = key}
    IN  CHOOSE p \in c : \A q \in c : q.id <= p.id

\* existingBySource.get(sourceId): the values of that source's map
ExistingForSource(existing, sourceId) ==
    {p \in Keyed(existing) :
        p.sourceId = sourceId /\ p = GetExisting(existing, ExistingKey(p))}

----------------------------------------------------------------------------
(* scan.worker: scanLocalSource *)

\* getFileEntries: the files present, in enumeration order
RECURSIVE FileEntriesFrom(_, _)
FileEntriesFrom(files, i) ==
    IF i > Len(FileSlots) THEN <<>>
    ELSE IF files[i].present
         THEN << [relativePath |-> FileSlots[i].relativePath,
                  name         |-> FileSlots[i].name,
                  lastModified |-> files[i].lastModified,
                  size         |-> files[i].size] >> \o FileEntriesFrom(files, i + 1)
         ELSE FileEntriesFrom(files, i + 1)

getFileEntries(files) == FileEntriesFrom(files, 1)

\* relativePath ? `${relativePath}/${fileHandle.name}` : fileHandle.name
LocalKeyPart(entry) ==
    IF entry.relativePath # <<>> THEN entry.relativePath \o <<entry.name>>
    ELSE <<entry.name>>

\* as LocalUnchanged, but the byte size is not compared
LocalUnchangedByTimeOnly(existing, key, entry) ==
    /\ HasExisting(existing, key)
    /\ GetExisting(existing, key).modified = entry.lastModified

\* the fast path: the existing record has the file's timestamp and size
LocalUnchanged(existing, key, entry) ==
    /\ HasExisting(existing, key)
    /\ GetExisting(existing, key).modified = entry.lastModified
    /\ GetExisting(existing, key).size = entry.size

LocalPictureData(source, entry) ==
    [sourceId     |-> source.id,
     name         |-> entry.name,
     path         |-> <<>>,
     modified     |-> entry.lastModified,
     size         |-> entry.size,
     relativePath |-> LocalKeyPart(entry)]

WithId(data, id) ==
    [id |-> id, sourceId |-> data.sourceId, name |-> data.name, path |-> data.path,
     modified |-> data.modified, size |-> data.size,
     relativePath |-> data.relativePath]

\* a walker that decodes every file it meets
ProcessedAlways(decoded, key, unchanged) == decoded \cup {key}

\* the keys of the files given to getImageDimensions and exifr.parse: the else
\* branch of the fast path
Processed(decoded, key, unchanged) ==
    IF unchanged THEN decoded ELSE decoded \cup {key}

\* the for loop over fileEntries.entries(); index is 0-based as in the code
RECURSIVE LocalLoop(_, _, _, _, _)
LocalLoop(source, existing, entries, index, acc) ==
    IF index >= Len(entries) THEN acc
    ELSE
      LET entry == entries[index + 1]
          key   == <<source.id, LocalKeyPart(entry)>>
          data  == LocalPictureData(source, entry)
          unchanged == LocalUnchanged(existing, key, entry)
          isUpdate  == ~unchanged /\ HasExisting(existing, key)
          isAdd     == ~unchanged /\ ~HasExisting(existing, key)
          decoded == Processed(acc.decoded, key, unchanged)
          posts == IF index % 20 = 0
                   THEN << [type |-> "progress",
                            progress |-> (index * 100) \div Len(entries)] >>
                   ELSE <<>>
      IN LocalLoop(source, existing, entries, index + 1,
           [adds     |-> IF isAdd THEN Append(acc.adds, data) ELSE acc.adds,
            updates  |-> IF isUpdate
                         THEN Append(acc.updates,
                                     WithId(data, GetExisting(existing, key).id))
                         ELSE acc.updates,
            seenKeys |-> acc.seenKeys \cup {key},
            decoded  |-> decoded,
            posts    |-> acc.posts \o posts])

EmptyResults == [adds |-> <<>>, updates |-> <<>>, seenKeys |-> {}, decoded |-> {},
                 posts |-> <<>>]

scanLocalSource(source, existing, files) ==
    LocalLoop(source, existing, getFileEntries(files), 0, EmptyResults)

----------------------------------------------------------------------------
(* scan.worker: scanRemoteSource *)

\* modifiedStr ? new Date(modifiedStr).getTime() : Date.now()
RemoteModified(image, nowv) == IF image.modified # 0 THEN image.modified ELSE nowv

\* the for loop over the images of one page
RECURSIVE RemoteImages(_, _, _, _, _)
RemoteImages(source, existing, images, nowv, acc) ==
    IF images = <<>> THEN acc
    ELSE IF source.maxImages # 0 /\ Cardinality(acc.seenKeys) >= source.maxImages
    THEN [acc EXCEPT !.hasMore = FALSE]                          \* break
    ELSE
      LET image    == Head(images)
          modified == RemoteModified(image, nowv)
          key      == <<source.id, image.url>>
      IN IF image.url = <<>> \/ image.name = "" \/ key \in acc.seenKeys
         THEN RemoteImages(source, existing, Tail(images), nowv, acc)   \* continue
         ELSE RemoteImages(source, existing, Tail(images), nowv,
           [acc EXCEPT
              !.seenKeys = @ \cup {key},
              !.updates =
                 IF HasExisting(existing, key)
                    /\ GetExisting(existing, key).modified # modified
                 THEN Append(@, [GetExisting(existing, key) EXCEPT
                                    !.name = image.name, !.path = image.url,
                                    !.modified = modified])
                 ELSE @,
              !.adds =
                 IF ~HasExisting(existing, key)
                 THEN Append(@, [sourceId |-> source.id, name |-> image.name,
                                 path |-> image.url, modified |-> modified,
                                 size |-> 0, relativePath |-> <<>>])
                 ELSE @])

\* the while (hasMore) loop; the request for page failPage fails (0: none does)
RECURSIVE RemoteLoop(_, _, _, _, _, _, _)
RemoteLoop(source, existing, pages, failPage, nowv, page, acc) ==
    IF ~acc.hasMore THEN acc
    ELSE
      LET posted == [acc EXCEPT !.posts =
                        Append(@, [type |-> "progress", progress |-> (page % 10) * 10])]
      IN IF page = failPage
         THEN [posted EXCEPT !.posts = Append(@, [type |-> "error", source |-> source.name]),
                             !.hasMore = FALSE,
                             !.requests = @ + 1]
         ELSE IF page > Len(pages) \/ pages[page] = <<>>
         THEN [posted EXCEPT !.hasMore = FALSE, !.requests = @ + 1]
         ELSE RemoteLoop(source, existing, pages, failPage, nowv, page + 1,
                  [RemoteImages(source, existing, pages[page], nowv, posted)
                      EXCEPT !.requests = @ + 1])

\* a crawl that throws its results away when a request fails
scanRemoteSourceDiscarding(source, existing, pages, failPage, nowv) ==
    LET r == RemoteLoop(source, existing, pages, failPage, nowv, 1,
                 [adds |-> <<>>, updates |-> <<>>, seenKeys |-> {}, posts |-> <<>>,
                  hasMore |-> TRUE, requests |-> 0])
        failed == \E i \in 1..Len(r.posts) : r.posts[i].type = "error"
    IN [adds |-> IF failed THEN <<>> ELSE r.adds,
        updates |-> IF failed THEN <<>> ELSE r.updates,
        seenKeys |-> IF failed THEN {} ELSE r.seenKeys,
        decoded |-> {}, posts |-> r.posts]

scanRemoteSource(source, existing, pages, failPage, nowv) ==
    LET r == RemoteLoop(source, existing, pages, failPage, nowv, 1,
                 [adds |-> <<>>, updates |-> <<>>, seenKeys |-> {}, posts |-> <<>>,
                  hasMore |-> TRUE, requests |-> 0])
    IN [adds |-> r.adds, updates |-> r.updates, seenKeys |-> r.seenKeys,
        decoded |-> {}, posts |-> r.posts]

----------------------------------------------------------------------------
(* scan.worker: self.onmessage *)

RECURSIVE SortedIds(_)
\* the ids of a set of pictures as an array, in the order of the snapshot
SortedIds(pics) ==
    IF pics = {} THEN <<>>
    ELSE LET p == CHOOSE x \in pics : \A y \in pics : x.id <= y.id
         IN <<p.id>> \o SortedIds(pics \ {p})

\* as DeletesFor, but without the sourceIdsToScan.includes(sourceId) test
DeletesForAnySource(source, existing, sourceIdsToScan, seenKeys) ==
    SortedIds({p \in ExistingForSource(existing, source.id) :
                 ExistingKey(p) \notin seenKeys})

\* the isolated deletion logic: the existing records of a walked source whose
\* key was not seen, when the source is in sourceIdsToScan
DeletesFor(source, existing, sourceIdsToScan, seenKeys) ==
    IF source.id \in sourceIdsToScan
    THEN SortedIds({p \in ExistingForSource(existing, source.id) :
                      ExistingKey(p) \notin seenKeys})
    ELSE <<>>

NoCommand == [sources |-> <<>>, existingPictures |-> {}, sourceIdsToScan |-> {}]
NoBase    == [sources |-> <<>>, scope |-> {}]
NoPending == [sources |-> <<>>, scope |-> {}, repeat |-> FALSE]
NotWalked == [walked |-> FALSE, items |-> {}, decoded |-> {}]

\* what a walk is given by its source, as the identities and fingerprints there
ObservedLocal(files) ==
    {[keyPart  |-> FileSlots[i].relativePath \o <<FileSlots[i].name>>,
      modified |-> files[i].lastModified,
      size     |-> files[i].size] : i \in {j \in 1..Len(FileSlots) : files[j].present}}

ObservedRemote(pages, failPage, nowv) ==
    UNION {{[keyPart  |-> pages[p][i].url,
             modified |-> RemoteModified(pages[p][i], nowv),
             size     |-> 0] : i \in 1..Len(pages[p])} :
           p \in {q \in 1..Len(pages) : failPage = 0 \/ q < failPage}}

\* handleRefresh posts the command and the worker starts on it.  The App sends
\* sourceIdsToScan = the ids of sources; the worker takes any scope.
StartScan(sources, scope) ==
    /\ ~isScanning /\ wpc = "idle" /\ outbox = <<>>
    /\ Len(sources) > 0
    /\ \A i \in 1..Len(sources) : sources[i].id \in dataSources
    /\ isScanning' = TRUE
    /\ scanProgress' = 0
    /\ cmd' = [sources |-> sources, existingPictures |-> pictures,
               sourceIdsToScan |-> scope]
    /\ wpc' = "walking"
    /\ widx' = 1
    /\ allAdds' = <<>> /\ allUpdates' = <<>> /\ allDeletes' = <<>>
    /\ outbox' = << [type |-> "progress", progress |-> 0] >>
    /\ observed' = [s \in SourceIds |-> NotWalked]
    /\ pending' = [sources |-> sources, scope |-> scope,
                   repeat |-> baseline = [sources |-> sources, scope |-> scope]]
    /\ scans < MaxScans
    /\ scans' = scans + 1
    /\ UNCHANGED <<scanEnv, pictures, nextId, pictureCount, baseline, applied, now,
                   serverVars>>

\* one iteration of the for loop over sources, for a source that is walked
Walked(source, results, seen) ==
    /\ allAdds' = allAdds \o results.adds
    /\ allUpdates' = allUpdates \o results.updates
    /\ allDeletes' = allDeletes \o
          DeletesFor(source, cmd.existingPictures, cmd.sourceIdsToScan,
                     results.seenKeys)
    /\ outbox' = outbox \o results.posts
    /\ widx' = widx + 1
    /\ observed' = [observed EXCEPT ![source.id] = [walked |-> TRUE, items |-> seen,
                                               decoded |-> results.decoded]]
    /\ UNCHANGED <<wpc, cmd>>

\* the handler returns: its locals are gone
WorkerReturns ==
    /\ wpc' = "idle"
    /\ cmd' = NoCommand
    /\ widx' = 1
    /\ allAdds' = <<>> /\ allUpdates' = <<>> /\ allDeletes' = <<>>
    /\ observed' = [s \in SourceIds |-> NotWalked]

WalkLocal ==
    /\ wpc = "walking" /\ widx <= Len(cmd.sources)
    /\ cmd.sources[widx].type = "local"
    /\ localAccess
    /\ Walked(cmd.sources[widx],
              scanLocalSource(cmd.sources[widx], cmd.existingPictures, localFiles),
              ObservedLocal(localFiles))
    /\ UNCHANGED <<scanEnv, appVars, baseline, pending, scans, applied, now,
                   serverVars>>

\* a walker for which a directory handle without permission has no entries
WalkLocalSeesNothing ==
    /\ wpc = "walking" /\ widx <= Len(cmd.sources)
    /\ cmd.sources[widx].type = "local"
    /\ ~localAccess
    /\ Walked(cmd.sources[widx], EmptyResults, {})
    /\ UNCHANGED <<scanEnv, appVars, baseline, pending, scans, applied, now,
                   serverVars>>

\* enumerating the directory handle throws: the catch of onmessage posts 'error'
WalkLocalThrows ==
    /\ wpc = "walking" /\ widx <= Len(cmd.sources)
    /\ cmd.sources[widx].type = "local"
    /\ ~localAccess
    /\ outbox' = Append(outbox, [type |-> "error", source |-> ""])
    /\ WorkerReturns
    /\ pending' = [pending EXCEPT !.sources = <<>>]
    /\ UNCHANGED <<scanEnv, appVars, baseline, scans, applied, now, serverVars>>

WalkRemote(failPage) ==
    /\ wpc = "walking" /\ widx <= Len(cmd.sources)
    /\ cmd.sources[widx].type = "remote"
    /\ Walked(cmd.sources[widx],
              scanRemoteSource(cmd.sources[widx], cmd.existingPictures,
                               RemotePages, failPage, now),
              ObservedRemote(RemotePages, failPage, now))
    /\ pending' = IF failPage = 0 THEN pending ELSE [pending EXCEPT !.sources = <<>>]
    /\ UNCHANGED <<scanEnv, appVars, baseline, scans, applied, now, serverVars>>

WorkerFinish ==
    /\ wpc = "walking" /\ widx > Len(cmd.sources)
    /\ outbox' = outbox \o
          << [type |-> "progress", progress |-> 100],
             [type |-> "complete", adds |-> allAdds, updates |-> allUpdates,
              deletes |-> allDeletes] >>
    /\ WorkerReturns
    /\ UNCHANGED <<scanEnv, appVars, baseline, pending, scans, applied, now,
                   serverVars>>

----------------------------------------------------------------------------
(* App: scanWorker.current.onmessage *)

RECURSIVE BulkPut(_, _)
\* db.pictures.bulkPut: each record replaces the one with its id
BulkPut(table, updates) ==
    IF updates = <<>> THEN table
    ELSE BulkPut({p \in table : p.id # Head(updates).id} \cup {Head(updates)},
                 Tail(updates))

RECURSIVE BulkAdd(_, _, _)
\* db.pictures.bulkAdd: each record gets the next auto-increment id
BulkAdd(table, adds, id) ==
    IF adds = <<>> THEN table
    ELSE BulkAdd(table \cup {WithId(Head(adds), id)}, Tail(adds), id + 1)

NothingApplied == [adds |-> 0, updates |-> 0, deletes |-> 0]

\* a table writer that stops after the deletes
ApplyDeletesOnly(table, m, id) == {p \in table : p.id \notin Range(m.deletes)}

\* the transaction of the 'complete' branch
ApplyChangeset(table, m, id) ==
    BulkAdd(BulkPut({p \in table : p.id \notin Range(m.deletes)}, m.updates),
            m.adds, id)

CountBySource(table) ==
    [s \in SourceIds |-> IF s \in dataSources
                         THEN Cardinality({p \in table : p.sourceId = s})
                         ELSE pictureCount[s]]

OnProgress ==
    /\ outbox # <<>> /\ Head(outbox).type = "progress"
    /\ scanProgress' = Head(outbox).progress
    /\ outbox' = Tail(outbox)
    /\ UNCHANGED <<scanEnv, pictures, nextId, pictureCount, isScanning,
                   wpc, cmd, widx, allAdds, allUpdates, allDeletes, histVars, now, serverVars>>

OnComplete ==
    /\ outbox # <<>> /\ Head(outbox).type = "complete"
    /\ nextId + Len(Head(outbox).adds) <= MaxPictureId + 1
    /\ pictures' = ApplyChangeset(pictures, Head(outbox), nextId)
    /\ nextId' = nextId + Len(Head(outbox).adds)
    /\ pictureCount' = CountBySource(pictures')
    /\ isScanning' = FALSE
    /\ outbox' = Tail(outbox)
    /\ baseline' = IF pending.sources # <<>>
                   THEN [sources |-> pending.sources, scope |-> pending.scope]
                   ELSE NoBase
    /\ pending' = NoPending
    /\ applied' = [adds |-> Len(Head(outbox).adds),
                   updates |-> Len(Head(outbox).updates),
                   deletes |-> Len(Head(outbox).deletes)]
    /\ UNCHANGED <<scanEnv, scanProgress, wpc, cmd, widx, allAdds, allUpdates,
                   allDeletes, observed, scans, now, serverVars>>

OnError ==
    /\ outbox # <<>> /\ Head(outbox).type = "error"
    /\ isScanning' = FALSE
    /\ outbox' = Tail(outbox)
    /\ UNCHANGED <<scanEnv, pictures, nextId, pictureCount, scanProgress,
                   wpc, cmd, widx, allAdds, allUpdates, allDeletes, histVars, now, serverVars>>

\* the App is unmounted, which terminates the worker with what it has posted
\* and not delivered, and mounted again with a new worker
TerminateWorker ==
    /\ isScanning
    /\ isScanning' = FALSE
    /\ scanProgress' = 0
    /\ outbox' = <<>>
    /\ WorkerReturns
    /\ baseline' = NoBase
    /\ pending' = NoPending
    /\ UNCHANGED <<scanEnv, pictures, nextId, pictureCount, scans, applied, now,
                   serverVars>>

----------------------------------------------------------------------------
(* The sources change under the program *)

\* A walk reads its source in one step, so a change during a scan is a change
\* before or after a walk; changes are taken between scans.
Changed ==
    /\ ~isScanning /\ wpc = "idle" /\ outbox = <<>>
    /\ scans < MaxScans
    /\ UNCHANGED <<scans, applied>>
    /\ baseline' = NoBase
    /\ pending' = [pending EXCEPT !.sources = <<>>]
    /\ UNCHANGED <<appVars, workVars, observed, now, serverVars>>

\* a file is written, touched, created or removed
ChangeFile(i, st) ==
    /\ localFiles[i] # st
    /\ localFiles' = [localFiles EXCEPT ![i] = st]
    /\ Changed
    /\ UNCHANGED localAccess

\* the permission on the directory handle is revoked or granted again
ChangeAccess ==
    /\ localAccess' = ~localAccess
    /\ Changed
    /\ UNCHANGED localFiles

\* time passes between two scans
ScanTick ==
    /\ ~isScanning /\ wpc = "idle" /\ outbox = <<>>
    /\ 0 < scans /\ scans < MaxScans
    /\ now < MaxNow
    /\ now' = now + 1
    /\ UNCHANGED <<scanVars, serverVars>>

----------------------------------------------------------------------------
(* Server: the thumbnail cache of server.cjs *)

(* A path below THUMB_CACHE_DIR is a sequence of names, a name is a tuple of
   strings: <<"a3">> is a shard directory, <<source, path, "small">> is the
   file "<md5 of source/path>_small.webp". *)

MaxRequests == 2       \* thumbnail requests received in one behaviour
MaxRestarts == 1       \* restarts of the server process in one behaviour

MiB == 1024 * 1024

CACHE_TTL_MS == 7 * 24 * 60 * 60 * 1000

MAX_CACHE_SIZE_BYTES == 500 * 1024 * 1024

THUMBNAIL_SIZES_ARRAY == <<400, 800, 1600>>

THUMBNAIL_MAX_WIDTH == THUMBNAIL_SIZES_ARRAY[Len(THUMBNAIL_SIZES_ARRAY)]

\* THUMBNAIL_SIZES_ARRAY.find(size => size >= requestedWidth), 0 for undefined
RECURSIVE FindTier(_, _, _)
FindTier(sizes, i, requestedWidth) ==
    IF i > Len(sizes) THEN 0
    ELSE IF sizes[i] >= requestedWidth THEN sizes[i]
    ELSE FindTier(sizes, i + 1, requestedWidth)

\* a quantization that rounds to the nearest preset
NearestTier(requestedWidth) ==
    IF requestedWidth < 600 THEN 400 ELSE IF requestedWidth < 1200 THEN 800 ELSE 1600

QuantizeWidth(requestedWidth) ==
    LET found == FindTier(THUMBNAIL_SIZES_ARRAY, 1, requestedWidth)
    IN  IF found # 0 THEN found ELSE THUMBNAIL_MAX_WIDTH

\* a naming with one name for the two upper tiers
SizeNameOfTwo(width) == IF width <= 400 THEN "small" ELSE "large"

SizeName(width) ==
    IF width <= 400 THEN "small" ELSE IF width <= 800 THEN "medium" ELSE "large"

\* the md5 digest of `${sourceName}/${imagePath}`, free of collisions
PathHash(sourceName, imagePath) == <<sourceName, imagePath>>

\* pathHash.substring(0, 2): many digests share a shard
Subdir(pathHash) == IF pathHash[2] \in {"a.jpg", "b.jpg"} THEN "a3" ELSE "7f"

getThumbCacheKeyTwitterStyle(sourceName, imagePath, width) ==
    LET pathHash == PathHash(sourceName, imagePath)
    IN  << <<Subdir(pathHash)>>, <<pathHash[1], pathHash[2], SizeName(width)>> >>

\* the flat key of the releases before the shards: md5 of source/path/width
getThumbCacheKey(sourceName, imagePath, width) ==
    << <<sourceName, imagePath, ToString(width)>> >>

\* the server source and the images below its root
ServerSourceName == "Album"
ServerImages == {"a.jpg", "broken.jpg"}
\* the files among them sharp cannot read as an image
UnreadableImages == {"broken.jpg"}
RequestImages == {"a.jpg", "gone.jpg", "broken.jpg"}
RequestWidths == {300, 500}

\* thumbBuffer.length of a thumbnail of the given tier
BufferLength(width) == IF width <= 400 THEN 200 * MiB ELSE 300 * MiB

\* stat.size of a directory
DirectorySize == 4096

EmptyFiles == [p \in {} |-> 0]

Remove(files, p) == [q \in DOMAIN files \ {p} |-> files[q]]

\* fs.promises.readdir(THUMB_CACHE_DIR): the names directly below it
Readdir(files) == {<<p[1]>> : p \in DOMAIN files}

StatSize(files, p) == IF p \in DOMAIN files THEN files[p] ELSE DirectorySize

\* cacheMetadata.entries keeps the order in which its keys were inserted
EntryIndex(entries, filename) ==
    LET hits == {i \in 1..Len(entries) : entries[i].filename = filename}
    IN  IF hits = {} THEN 0 ELSE CHOOSE i \in hits : TRUE

Entry(filename, createdAt, modifiedAt, size, accessCount) ==
    [filename |-> filename, createdAt |-> createdAt, modifiedAt |-> modifiedAt,
     size |-> size, accessCount |-> accessCount]

\* a store that appends an entry without looking for the one of the key
recordCacheEntryAppended(entries, filename, size, t) ==
    Append(entries, Entry(filename, t, t, size, 1))

recordCacheEntry(entries, filename, size, t) ==
    LET i == EntryIndex(entries, filename)
        e == Entry(filename, t, t, size, 1)
    IN  IF i = 0 THEN Append(entries, e) ELSE [entries EXCEPT ![i] = e]

updateCacheEntryAccess(entries, filename, t) ==
    LET i == EntryIndex(entries, filename)
    IN  IF i = 0 THEN entries
        ELSE [entries EXCEPT ![i].accessCount = @ + 1, ![i].modifiedAt = t]

DeleteEntry(entries, filename) ==
    SelectSeq(entries, LAMBDA e : e.filename # filename)

\* the comparator of the sort: least accessed first, then oldest first
EntryBefore(a, b) ==
    IF a.accessCount # b.accessCount THEN a.accessCount < b.accessCount
    ELSE a.modifiedAt < b.modifiedAt

RECURSIVE InsertSorted(_, _)
InsertSorted(sorted, e) ==
    IF sorted = <<>> THEN <<e>>
    ELSE LET last == sorted[Len(sorted)]
         IN  IF EntryBefore(e, last)
             THEN Append(InsertSorted(SubSeq(sorted, 1, Len(sorted) - 1), e), last)
             ELSE Append(sorted, e)

\* Array.prototype.sort is stable
RECURSIVE SortEntries(_)
SortEntries(s) ==
    IF s = <<>> THEN <<>>
    ELSE InsertSorted(SortEntries(SubSeq(s, 1, Len(s) - 1)), s[Len(s)])

RECURSIVE SumStats(_, _)
SumStats(fileStats, names) ==
    IF names = {} THEN 0
    ELSE LET n == CHOOSE x \in names : TRUE
         IN  fileStats[n] + SumStats(fileStats, names \ {n})

\* the readdir/stat loop of cleanupCacheIfNeeded
FileStatsOf(files) == [p \in Readdir(files) |-> StatSize(files, p)]

\* .filter(([filename]) => fileStats[filename]).sort(...)
SortedEntries(entries, fileStats) ==
    SortEntries(SelectSeq(entries,
        LAMBDA e : e.filename \in DOMAIN fileStats /\ fileStats[e.filename] # 0))

\* MAX_CACHE_SIZE_BYTES * 0.8, which is a whole number of bytes
TargetSize == (MAX_CACHE_SIZE_BYTES \div 10) * 8

\* the eviction loop: unlink and forget until enough bytes are freed; an
\* unlink that fails leaves the entry
RECURSIVE EvictLoop(_, _, _, _, _, _, _)
EvictLoop(sorted, i, totalSize, fileStats, files, entries, freedSize) ==
    IF i > Len(sorted) \/ freedSize >= totalSize - TargetSize
    THEN [files |-> files, entries |-> entries]
    ELSE LET filename == sorted[i].filename
         IN  IF filename \in DOMAIN files
             THEN EvictLoop(sorted, i + 1, totalSize, fileStats,
                            Remove(files, filename), DeleteEntry(entries, filename),
                            freedSize + fileStats[filename])
             ELSE EvictLoop(sorted, i + 1, totalSize, fileStats, files, entries,
                            freedSize)

ExpiredEntries(entries, t) ==
    SelectSeq(entries, LAMBDA e : t - e.modifiedAt > CACHE_TTL_MS)

\* the loop over the expired entries: an unlink that fails leaves the entry
RECURSIVE ExpireLoop(_, _, _, _)
ExpireLoop(expired, i, files, entries) ==
    IF i > Len(expired) THEN [files |-> files, entries |-> entries]
    ELSE LET filename == expired[i].filename
         IN  IF filename \in DOMAIN files
             THEN ExpireLoop(expired, i + 1, Remove(files, filename),
                             DeleteEntry(entries, filename))
             ELSE ExpireLoop(expired, i + 1, files, entries)

\* the handlers of thumbnail requests that run at the same time
ReqIds == {1, 2}

\* who awaits cleanupCacheIfNeeded: 0 is startServer and the maintenance
\* timer, r is the handler of request r
Owners == {0} \cup ReqIds

NoRequest == [pc |-> "idle", image |-> "", width |-> 0, cacheKey |-> <<>>, status |-> 0]

\* the handler has responded; status 0: the connection was dropped
Responded(status) == [NoRequest EXCEPT !.status = status]

NoSweep == [pc |-> "off", fileStats |-> EmptyFiles, totalSize |-> 0, startedAt |-> 0,
            added |-> FALSE]

SweepStarted(t) == [NoSweep EXCEPT !.pc = "scan", !.startedAt = t]

\* ---- cleanupCacheIfNeeded, one action per phase

CleanupScan(o) ==
    /\ sweeps[o].pc = "scan"
    /\ LET fileStats == FileStatsOf(cacheFiles)
           totalSize == SumStats(fileStats, DOMAIN fileStats)
       IN  sweeps' = [sweeps EXCEPT ![o].fileStats = fileStats,
                                     ![o].totalSize = totalSize,
                                     ![o].pc = IF totalSize > MAX_CACHE_SIZE_BYTES
                                               THEN "budget" ELSE "ttl"]
    /\ UNCHANGED <<cacheFiles, cacheMetadata, metadataFile, metadataPartial, listening, reqs, srvNow, restarts, arrivals>>
    /\ UNCHANGED <<scanVars, now, rescanVars, pathVars, tierVars, passVars, pregenVars, inventoryVars, dataSourcesVars, gridVars, crawlVars, keysVars, treeVars, coverVars, loaderVars, snapVars>>

\* the eviction loop
CleanupBudget(o) ==
    /\ sweeps[o].pc = "budget"
    /\ LET sorted == SortedEntries(cacheMetadata, sweeps[o].fileStats)
           out == EvictLoop(sorted, 1, sweeps[o].totalSize, sweeps[o].fileStats,
                            cacheFiles, cacheMetadata, 0)
       IN  /\ cacheFiles' = out.files
           /\ cacheMetadata' = out.entries
    /\ sweeps' = [sweeps EXCEPT ![o].pc = "budgetSave"]
    /\ UNCHANGED <<metadataFile, metadataPartial, listening, reqs, srvNow, restarts, arrivals>>
    /\ UNCHANGED <<scanVars, now, rescanVars, pathVars, tierVars, passVars, pregenVars, inventoryVars, dataSourcesVars, gridVars, crawlVars, keysVars, treeVars, coverVars, loaderVars, snapVars>>

\* the saveCacheMetadata that follows the eviction loop
CleanupBudgetSave(o) ==
    /\ sweeps[o].pc = "budgetSave"
    /\ metadataFile' = cacheMetadata
    /\ metadataPartial' = FALSE
    /\ sweeps' = [sweeps EXCEPT ![o].pc = "ttl"]
    /\ UNCHANGED <<cacheFiles, cacheMetadata, listening, reqs, srvNow, restarts, arrivals>>
    /\ UNCHANGED <<scanVars, now, rescanVars, pathVars, tierVars, passVars, pregenVars, inventoryVars, dataSourcesVars, gridVars, crawlVars, keysVars, treeVars, coverVars, loaderVars, snapVars>>

\* cleanupCacheIfNeeded returns to the one that awaits it
CleanupReturns(o) ==
    /\ sweeps' = [sweeps EXCEPT ![o] = NoSweep]
    /\ listening' = (listening \/ o = 0)
    /\ reqs' = IF o \in ReqIds THEN [reqs EXCEPT ![o] = Responded(200)] ELSE reqs

\* the loop over the expired entries; without expired entries the call returns
CleanupTtl(o) ==
    /\ sweeps[o].pc = "ttl"
    /\ LET expired == ExpiredEntries(cacheMetadata, srvNow)
           out == ExpireLoop(expired, 1, cacheFiles, cacheMetadata)
       IN  /\ cacheFiles' = out.files
           /\ cacheMetadata' = out.entries
           /\ IF Len(expired) > 0
              THEN /\ sweeps' = [sweeps EXCEPT ![o].pc = "ttlSave"]
                   /\ UNCHANGED <<listening, reqs>>
              ELSE CleanupReturns(o)
    /\ UNCHANGED <<metadataFile, metadataPartial, srvNow, restarts, arrivals>>
    /\ UNCHANGED <<scanVars, now, rescanVars, pathVars, tierVars, passVars, pregenVars, inventoryVars, dataSourcesVars, gridVars, crawlVars, keysVars, treeVars, coverVars, loaderVars, snapVars>>

\* the saveCacheMetadata that follows the loop over the expired entries
CleanupTtlSave(o) ==
    /\ sweeps[o].pc = "ttlSave"
    /\ metadataFile' = cacheMetadata
    /\ metadataPartial' = FALSE
    /\ CleanupReturns(o)
    /\ UNCHANGED <<cacheFiles, cacheMetadata, srvNow, restarts, arrivals>>
    /\ UNCHANGED <<scanVars, now, rescanVars, pathVars, tierVars, passVars, pregenVars, inventoryVars, dataSourcesVars, gridVars, crawlVars, keysVars, treeVars, coverVars, loaderVars, snapVars>>

\* the entries loadCacheMetadata leaves in memory: a text JSON.parse rejects
\* goes to the catch, which starts with no entry
loadCacheMetadata(entries, partial) == IF partial THEN <<>> ELSE entries

\* the writeFile calls of saveCacheMetadata that are in progress
SavesInProgress ==
    {o \in Owners : sweeps[o].pc \in {"budgetSave", "ttlSave"}}
        \cup {r \in ReqIds : reqs[r].pc = "save"}

\* the process is stopped and started again: startServer loads the metadata
\* file and enters the initial cleanup; the requests in flight get no response
Restart ==
    /\ restarts < MaxRestarts
    /\ restarts' = restarts + 1
    /\ cacheMetadata' = loadCacheMetadata(metadataFile, metadataPartial)
    /\ listening' = FALSE
    /\ reqs' = [r \in ReqIds |->
                  IF reqs[r].pc = "idle" THEN reqs[r] ELSE Responded(0)]
    /\ sweeps' = [o \in Owners |-> IF o = 0 THEN SweepStarted(srvNow) ELSE NoSweep]
    /\ UNCHANGED <<cacheFiles, metadataFile, metadataPartial, srvNow, arrivals>>
    /\ UNCHANGED <<scanVars, now, rescanVars, pathVars, tierVars, passVars, pregenVars, inventoryVars, dataSourcesVars, gridVars, crawlVars, keysVars, treeVars, coverVars, loaderVars, snapVars>>

\* the process is stopped while fs.promises.writeFile(CACHE_METADATA_FILE, ...)
\* has opened the file, which empties it, and has not written all of the text;
\* then it is started again
RestartInSave ==
    /\ restarts < MaxRestarts
    /\ SavesInProgress # {}
    /\ restarts' = restarts + 1
    /\ metadataFile' = <<>>
    /\ metadataPartial' = TRUE
    /\ cacheMetadata' = loadCacheMetadata(<<>>, TRUE)
    /\ listening' = FALSE
    /\ reqs' = [r \in ReqIds |->
                  IF reqs[r].pc = "idle" THEN reqs[r] ELSE Responded(0)]
    /\ sweeps' = [o \in Owners |-> IF o = 0 THEN SweepStarted(srvNow) ELSE NoSweep]
    /\ UNCHANGED <<cacheFiles, srvNow, arrivals>>
    /\ UNCHANGED <<scanVars, now, rescanVars, pathVars, tierVars, passVars, pregenVars, inventoryVars, dataSourcesVars, gridVars, crawlVars, keysVars, treeVars, coverVars, loaderVars, snapVars>>

\* the setInterval of startCacheMaintenanceTimer fires
MaintenanceTimer ==
    /\ listening
    /\ sweeps[0].pc = "off"
    /\ sweeps' = [sweeps EXCEPT ![0] = SweepStarted(srvNow)]
    /\ UNCHANGED <<cacheFiles, cacheMetadata, metadataFile, metadataPartial, listening, reqs, srvNow, restarts, arrivals>>
    /\ UNCHANGED <<scanVars, now, rescanVars, pathVars, tierVars, passVars, pregenVars, inventoryVars, dataSourcesVars, gridVars, crawlVars, keysVars, treeVars, coverVars, loaderVars, snapVars>>

\* ---- GET /api/server-images-thumb/<source>/<image>?width=, one action per
\* ---- stretch between two awaits

\* up to the access() of the source image
ThumbArrive(r, image, requestedWidth) ==
    /\ listening
    /\ reqs[r].pc = "idle"
    /\ \A q \in ReqIds : q < r => reqs[q].pc # "idle"
    /\ arrivals < MaxRequests
    /\ arrivals' = arrivals + 1
    /\ LET width == QuantizeWidth(requestedWidth)
       IN  reqs' = [reqs EXCEPT ![r] =
              IF image \in ServerImages
              THEN [pc |-> "accessCache", image |-> image, width |-> width,
                    cacheKey |-> getThumbCacheKeyTwitterStyle(ServerSourceName,
                                                              image, width),
                    status |-> 0]
              ELSE Responded(404)]
    /\ UNCHANGED <<cacheFiles, cacheMetadata, metadataFile, metadataPartial, listening, sweeps, srvNow, restarts>>
    /\ UNCHANGED <<scanVars, now, rescanVars, pathVars, tierVars, passVars, pregenVars, inventoryVars, dataSourcesVars, gridVars, crawlVars, keysVars, treeVars, coverVars, loaderVars, snapVars>>

\* the access() of the cache file: a hit is served from the cache
ThumbAccessCache(r) ==
    /\ reqs[r].pc = "accessCache"
    /\ IF reqs[r].cacheKey \in DOMAIN cacheFiles
       THEN /\ cacheMetadata' = updateCacheEntryAccess(cacheMetadata,
                                                       reqs[r].cacheKey, srvNow)
            /\ reqs' = [reqs EXCEPT ![r] = Responded(200)]
       ELSE /\ reqs' = [reqs EXCEPT ![r].pc = "generate"]
            /\ UNCHANGED cacheMetadata
    /\ UNCHANGED <<cacheFiles, metadataFile, metadataPartial, listening, sweeps, srvNow, restarts, arrivals>>
    /\ UNCHANGED <<scanVars, now, rescanVars, pathVars, tierVars, passVars, pregenVars, inventoryVars, dataSourcesVars, gridVars, crawlVars, keysVars, treeVars, coverVars, loaderVars, snapVars>>

\* sharp(...).metadata(), the resize to a buffer, the mkdir of the shard,
\* writeFile(cachePath, thumbBuffer), then recordCacheEntry
ThumbGenerate(r) ==
    /\ reqs[r].pc = "generate"
    /\ reqs[r].image \notin UnreadableImages
    /\ LET size == BufferLength(reqs[r].width)
       IN  /\ cacheFiles' = [p \in DOMAIN cacheFiles \cup {reqs[r].cacheKey} |->
                               IF p = reqs[r].cacheKey THEN size ELSE cacheFiles[p]]
           /\ cacheMetadata' = recordCacheEntry(cacheMetadata, reqs[r].cacheKey,
                                                size, srvNow)
    /\ reqs' = [reqs EXCEPT ![r].pc = "save"]
    /\ sweeps' = [o \in Owners |->
                    IF sweeps[o].pc # "off" THEN [sweeps[o] EXCEPT !.added = TRUE]
                    ELSE sweeps[o]]
    /\ UNCHANGED <<metadataFile, metadataPartial, listening, srvNow, restarts, arrivals>>
    /\ UNCHANGED <<scanVars, now, rescanVars, pathVars, tierVars, passVars, pregenVars, inventoryVars, dataSourcesVars, gridVars, crawlVars, keysVars, treeVars, coverVars, loaderVars, snapVars>>

\* sharp(imagePath).metadata() of a file that is no image: it throws, which
\* the catch of the handler answers with 500, or it resolves without a width
\* or a height, which is answered with 400
ThumbUnreadable(r, status) ==
    /\ reqs[r].pc = "generate"
    /\ reqs[r].image \in UnreadableImages
    /\ reqs' = [reqs EXCEPT ![r] = Responded(status)]
    /\ UNCHANGED <<cacheFiles, cacheMetadata, metadataFile, metadataPartial, listening, sweeps, srvNow, restarts, arrivals>>
    /\ UNCHANGED <<scanVars, now, rescanVars, pathVars, tierVars, passVars, pregenVars, inventoryVars, dataSourcesVars, gridVars, crawlVars, keysVars, treeVars, coverVars, loaderVars, snapVars>>

\* saveCacheMetadata, then cleanupCacheIfNeeded is entered
ThumbSave(r) ==
    /\ reqs[r].pc = "save"
    /\ metadataFile' = cacheMetadata
    /\ metadataPartial' = FALSE
    /\ reqs' = [reqs EXCEPT ![r].pc = "cleanup"]
    /\ sweeps' = [sweeps EXCEPT ![r] = SweepStarted(srvNow)]
    /\ UNCHANGED <<cacheFiles, cacheMetadata, listening, srvNow, restarts, arrivals>>
    /\ UNCHANGED <<scanVars, now, rescanVars, pathVars, tierVars, passVars, pregenVars, inventoryVars, dataSourcesVars, gridVars, crawlVars, keysVars, treeVars, coverVars, loaderVars, snapVars>>

\* ---- what a previous run of the server left in thumb_cache

ThumbStart == CACHE_TTL_MS + 1

KeyMedium == getThumbCacheKeyTwitterStyle(ServerSourceName, "a.jpg", 800)
KeyFlatOld == getThumbCacheKey(ServerSourceName, "b.jpg", 800)
KeyFlatNew == getThumbCacheKey(ServerSourceName, "c.jpg", 800)

\* "fresh": file and entry, accessed a millisecond ago; "stale": file and
\* entry, accessed two milliseconds ago; "old": file and entry, not accessed
\* for longer than the TTL
InitKeys == <<KeyMedium, KeyFlatOld, KeyFlatNew>>
InitKinds == << {"none", "fresh", "stale", "old"}, {"none", "old"}, {"fresh"} >>
LeftBehind ==
    {c \in [1..Len(InitKeys) -> {"none", "fresh", "stale", "old"}] :
        \A i \in 1..Len(InitKeys) : c[i] \in InitKinds[i]}

InitialSize == 300 * MiB

FilesLeft(c) ==
    [p \in {InitKeys[i] : i \in {j \in 1..Len(InitKeys) :
                                    c[j] # "none"}} |->
        InitialSize]

EntriesLeft(c) ==
    LET all == [i \in 1..Len(InitKeys) |->
                  IF c[i] = "fresh"
                  THEN Entry(InitKeys[i], ThumbStart - 1, ThumbStart - 1, InitialSize, 1)
                  ELSE IF c[i] = "stale"
                  THEN Entry(InitKeys[i], ThumbStart - 2, ThumbStart - 2, InitialSize, 1)
                  ELSE Entry(InitKeys[i], 0, 0, InitialSize,
                             IF c[i] = "old" THEN 2 ELSE 0)]
    IN  SelectSeq(all, LAMBDA e : e.accessCount > 0)

\* the server is not running
ThumbQuiet ==
    /\ cacheFiles = EmptyFiles
    /\ cacheMetadata = <<>>
    /\ metadataFile = <<>>
    /\ metadataPartial = FALSE
    /\ listening = FALSE
    /\ reqs = [r \in ReqIds |-> NoRequest]
    /\ sweeps = [o \in Owners |-> NoSweep]
    /\ srvNow = ThumbStart
    /\ restarts = 0
    /\ arrivals = 0

----------------------------------------------------------------------------
(* Server: the watcher, the debounce timer and the rescans of server.cjs *)

MaxEvents == 3         \* watcher events in one behaviour
MaxTicks == 5          \* the server's rescan clock stops after this many ticks

RESCAN_DEBOUNCE_DELAY == 5000

\* the clock of the rescans advances by half a delay
TickMs == RESCAN_DEBOUNCE_DELAY \div 2

\* a triggerRescan that leaves the pending timer alone
KeepTimers(scheduled, handle) == scheduled

\* clearTimeout(rescanTimer): a timer that has fired is not pending any more,
\* clearing it does nothing
clearTimeout(scheduled, handle) == {t \in scheduled : t.id # handle}

\* one execution of scanServerFolders: who started it, and the state of the
\* watched folders it lists
Execution(origin) == [origin |-> origin, listed |-> folder]

\* the sources of SERVER_SOURCES, and serverDataCache before any scan
WatchedSources == <<ServerSourceName>>
NoServerData == [sources |-> <<>>, listed |-> 0]

\* triggerRescan()
triggerRescan ==
    IF isScanningServer
    THEN UNCHANGED <<rescanTimer, timers, timerSeq, lastEvent, bursts, coalesced>>
    ELSE /\ timers' = clearTimeout(timers, rescanTimer) \cup
                        {[id |-> timerSeq + 1, due |-> rsNow + RESCAN_DEBOUNCE_DELAY]}
         /\ rescanTimer' = timerSeq + 1
         /\ timerSeq' = timerSeq + 1
         /\ lastEvent' = rsNow
         /\ bursts' = IF timers = {} THEN bursts + 1 ELSE bursts
         /\ coalesced' = IF timers = {} THEN 0 ELSE coalesced + 1

\* the tail of startServer: the watchers are set up, then the first scan is
\* awaited when no cached sources were loaded, else a rescan is triggered
StartServer ==
    /\ srvPc = "boot"
    /\ srvPc' = "up"
    /\ IF Len(serverDataCache.sources) = 0
       THEN /\ running' = Append(running, Execution("startServer"))
            /\ UNCHANGED <<rescanTimer, timers, timerSeq, lastEvent, bursts, coalesced>>
       ELSE /\ triggerRescan
            /\ UNCHANGED running
    /\ UNCHANGED <<folder, serverDataCache, isScanningServer, rsNow, rescans, lastStart>>
    /\ UNCHANGED <<scanVars, now, thumbVars, pathVars, tierVars, passVars, pregenVars, inventoryVars, dataSourcesVars, gridVars, crawlVars, keysVars, treeVars, coverVars, loaderVars, snapVars>>

\* chokidar reports an add, a change or an unlink below a watched path
WatcherEvent ==
    /\ srvPc = "up"
    /\ folder < MaxEvents
    /\ folder' = folder + 1
    /\ triggerRescan
    /\ UNCHANGED <<srvPc, serverDataCache, isScanningServer, running, rsNow, rescans,
                   lastStart>>
    /\ UNCHANGED <<scanVars, now, thumbVars, pathVars, tierVars, passVars, pregenVars, inventoryVars, dataSourcesVars, gridVars, crawlVars, keysVars, treeVars, coverVars, loaderVars, snapVars>>

\* the callback of setTimeout runs up to its await
TimerFires ==
    /\ \E t \in timers :
          /\ t.due <= rsNow
          /\ timers' = timers \ {t}
    /\ isScanningServer' = TRUE
    /\ running' = Append(running, Execution("rescanTimer"))
    /\ rescans' = rescans + 1
    /\ lastStart' = [at |-> rsNow, event |-> lastEvent]
    /\ UNCHANGED <<srvPc, folder, serverDataCache, rescanTimer, timerSeq, lastEvent,
                   bursts, coalesced, rsNow>>
    /\ UNCHANGED <<scanVars, now, thumbVars, pathVars, tierVars, passVars, pregenVars, inventoryVars, dataSourcesVars, gridVars, crawlVars, keysVars, treeVars, coverVars, loaderVars, snapVars>>

\* an execution of scanServerFolders publishes what it listed and returns; the
\* finally of the timer callback clears the flag
ScanFinishes(i) ==
    /\ i \in 1..Len(running)
    /\ serverDataCache' = [sources |-> WatchedSources, listed |-> running[i].listed]
    /\ running' = SubSeq(running, 1, i - 1) \o SubSeq(running, i + 1, Len(running))
    /\ isScanningServer' = IF running[i].origin = "rescanTimer" THEN FALSE
                           ELSE isScanningServer
    /\ UNCHANGED <<srvPc, folder, rescanTimer, timers, timerSeq, lastEvent, bursts,
                   coalesced, rsNow, rescans, lastStart>>
    /\ UNCHANGED <<scanVars, now, thumbVars, pathVars, tierVars, passVars, pregenVars, inventoryVars, dataSourcesVars, gridVars, crawlVars, keysVars, treeVars, coverVars, loaderVars, snapVars>>

RescanTick ==
    /\ srvPc = "up"
    /\ rsNow < MaxTicks * TickMs
    /\ rsNow' = rsNow + TickMs
    /\ UNCHANGED <<srvPc, folder, serverDataCache, isScanningServer, rescanTimer,
                   timers, timerSeq, running, lastEvent, bursts, coalesced, rescans,
                   lastStart>>
    /\ UNCHANGED <<scanVars, now, thumbVars, pathVars, tierVars, passVars, pregenVars, inventoryVars, dataSourcesVars, gridVars, crawlVars, keysVars, treeVars, coverVars, loaderVars, snapVars>>

\* time goes on while a timer is pending: the clock passes its last tick
\* until the timer is due
TimerElapses ==
    /\ srvPc = "up"
    /\ rsNow >= MaxTicks * TickMs
    /\ \E t \in timers : t.due > rsNow
    /\ rsNow' = rsNow + TickMs
    /\ UNCHANGED <<srvPc, folder, serverDataCache, isScanningServer, rescanTimer,
                   timers, timerSeq, running, lastEvent, bursts, coalesced, rescans,
                   lastStart>>
    /\ UNCHANGED <<scanVars, now, thumbVars, pathVars, tierVars, passVars, pregenVars, inventoryVars, dataSourcesVars, gridVars, crawlVars, keysVars, treeVars, coverVars, loaderVars, snapVars>>

\* the server is not running
RescanQuiet ==
    /\ srvPc = "boot"
    /\ folder = 0
    /\ serverDataCache = NoServerData
    /\ isScanningServer = FALSE
    /\ rescanTimer = 0
    /\ timers = {}
    /\ timerSeq = 0
    /\ running = <<>>
    /\ rsNow = 0
    /\ lastEvent = 0
    /\ bursts = 0
    /\ coalesced = 0
    /\ rescans = 0
    /\ lastStart = [at |-> 0, event |-> 0]

----------------------------------------------------------------------------
(* Server: the path check of the two image endpoints of server.cjs *)

(* Here a string is the sequence of its characters; an escape of the URL such
   as %2F is one element until decodeURIComponent replaces it. *)

MaxSubSegments == 3    \* segments of the URL after the source name

RECURSIVE SplitLoop(_, _, _, _)
SplitLoop(str, i, cur, acc) ==
    IF i > Len(str) THEN Append(acc, cur)
    ELSE IF str[i] = "/" THEN SplitLoop(str, i + 1, <<>>, Append(acc, cur))
    ELSE SplitLoop(str, i + 1, Append(cur, str[i]), acc)

\* str.split('/')
Split(str) == SplitLoop(str, 1, <<>>, <<>>)

\* parts.join('/')
RECURSIVE JoinParts(_)
JoinParts(parts) ==
    IF parts = <<>> THEN <<>>
    ELSE IF Len(parts) = 1 THEN parts[1]
    ELSE parts[1] \o <<"/">> \o JoinParts(Tail(parts))

\* req.path.split('/').filter(p => p)
PathParts(reqPath) == SelectSeq(Split(reqPath), LAMBDA p : p # <<>>)

decodeURIComponent(str) ==
    [i \in 1..Len(str) |->
        IF str[i] = "%2F" THEN "/" ELSE IF str[i] = "%2E" THEN "." ELSE str[i]]

\* the segments of an absolute path after "." and ".." are resolved
RECURSIVE NormalizeLoop(_, _, _)
NormalizeLoop(parts, i, out) ==
    IF i > Len(parts) THEN out
    ELSE IF parts[i] = <<>> \/ parts[i] = <<".">> THEN NormalizeLoop(parts, i + 1, out)
    ELSE IF parts[i] = <<".", ".">>
         THEN NormalizeLoop(parts, i + 1,
                            IF out = <<>> THEN out ELSE SubSeq(out, 1, Len(out) - 1))
    ELSE NormalizeLoop(parts, i + 1, Append(out, parts[i]))

\* path.resolve of an absolute path
pathResolve(p) == <<"/">> \o JoinParts(NormalizeLoop(Split(p), 1, <<>>))

\* path.join(a, b), a absolute and b without a trailing separator
pathJoin(a, b) == pathResolve(a \o <<"/">> \o b)

\* String.prototype.startsWith
startsWith(str, prefix) ==
    Len(prefix) <= Len(str) /\ SubSeq(str, 1, Len(prefix)) = prefix

\* serverSourceConfig: the source "A" has the root /m/p
SourceRoot == <<"/", "m", "/", "p">>
serverSourceConfig == [name \in {<<"A">>} |-> SourceRoot]

\* the files and the directories of the host
HostFiles == { <<"/", "m", "/", "p", "/", "x">>, <<"/", "m", "/", "p", "2", "/", "x">>,
               <<"/", "m", "/", "x">> }
HostDirectories == { <<"/">>, <<"/", "m">>, SourceRoot, <<"/", "m", "/", "p", "2">> }

\* the segments a client may put into the URL
RawSegments == { <<"x">>, <<".", ".">>, <<"p", "2">>, <<"%2E", "%2E", "%2F", "x">> }
RawSourceNames == { <<"A">>, <<"B">> }

RECURSIVE SegmentLists(_)
SegmentLists(n) ==
    IF n = 0 THEN {<<>>}
    ELSE LET shorter == SegmentLists(n - 1)
         IN  shorter \cup {Append(l, s) : l \in {k \in shorter : Len(k) = n - 1},
                                          s \in RawSegments}

\* the URLs below the mount point of an endpoint
RequestPaths ==
    {<<"/">> \o JoinParts(<<name>> \o l) :
        name \in RawSourceNames, l \in SegmentLists(MaxSubSegments) \ {<<>>}}

NoPathResponse == [status |-> 0, touched |-> {}]

\* the security check of both endpoints
PassesCheck(imagePath, sourcePath) ==
    startsWith(pathResolve(imagePath), pathResolve(sourcePath))

\* GET /api/server-images-thumb/...: the response, and the paths of the host
\* that the handler has touched
ThumbEndpoint(reqPath) ==
    LET pathParts == PathParts(reqPath)
        sourceName == pathParts[1]
        imageSubPath == JoinParts(Tail(pathParts))
    IN  IF Len(pathParts) < 2 THEN [status |-> 400, touched |-> {}]
        ELSE IF decodeURIComponent(sourceName) \notin DOMAIN serverSourceConfig
        THEN [status |-> 404, touched |-> {}]
        ELSE LET sourcePath == serverSourceConfig[decodeURIComponent(sourceName)]
                 imagePath == pathJoin(sourcePath, decodeURIComponent(imageSubPath))
             IN  IF ~PassesCheck(imagePath, sourcePath)
                 THEN [status |-> 403, touched |-> {}]
                 ELSE IF imagePath \notin HostFiles \cup HostDirectories
                 THEN [status |-> 404, touched |-> {imagePath}]
                 ELSE IF imagePath \in HostDirectories
                 THEN [status |-> 500, touched |-> {imagePath}]
                 ELSE [status |-> 200, touched |-> {imagePath}]

\* GET /api/server-images/...
OriginalEndpoint(reqPath) ==
    LET pathParts == PathParts(reqPath)
        sourceName == pathParts[1]
        imageSubPath == JoinParts(Tail(pathParts))
    IN  IF Len(pathParts) < 2 THEN [status |-> 400, touched |-> {}]
        ELSE IF decodeURIComponent(sourceName) \notin DOMAIN serverSourceConfig
        THEN [status |-> 404, touched |-> {}]
        ELSE LET sourcePath == serverSourceConfig[decodeURIComponent(sourceName)]
                 imagePath == pathJoin(sourcePath, decodeURIComponent(imageSubPath))
             IN  IF PassesCheck(imagePath, sourcePath)
                 THEN IF imagePath \in HostFiles
                      THEN [status |-> 200, touched |-> {imagePath}]
                      ELSE [status |-> 404, touched |-> {imagePath}]
                 ELSE [status |-> 403, touched |-> {}]

\* a client sends a request to one of the two endpoints
PathRequest(endpoint, reqPath) ==
    /\ pathReq.pc # "sent"
    /\ pathReq' = [pc |-> "sent", endpoint |-> endpoint, path |-> reqPath]
    /\ pathRes' = NoPathResponse
    /\ UNCHANGED <<scanVars, now, thumbVars, rescanVars, tierVars, passVars, pregenVars, inventoryVars, dataSourcesVars, gridVars, crawlVars, keysVars, treeVars, coverVars, loaderVars, snapVars>>

ServeThumb ==
    /\ pathReq.pc = "sent" /\ pathReq.endpoint = "thumb"
    /\ pathRes' = ThumbEndpoint(pathReq.path)
    /\ pathReq' = [pathReq EXCEPT !.pc = "done"]
    /\ UNCHANGED <<scanVars, now, thumbVars, rescanVars, tierVars, passVars, pregenVars, inventoryVars, dataSourcesVars, gridVars, crawlVars, keysVars, treeVars, coverVars, loaderVars, snapVars>>

ServeOriginal ==
    /\ pathReq.pc = "sent" /\ pathReq.endpoint = "original"
    /\ pathRes' = OriginalEndpoint(pathReq.path)
    /\ pathReq' = [pathReq EXCEPT !.pc = "done"]
    /\ UNCHANGED <<scanVars, now, thumbVars, rescanVars, tierVars, passVars, pregenVars, inventoryVars, dataSourcesVars, gridVars, crawlVars, keysVars, treeVars, coverVars, loaderVars, snapVars>>

PathQuiet ==
    /\ pathReq = [pc |-> "idle", endpoint |-> "none", path |-> <<>>]
    /\ pathRes = NoPathResponse

----------------------------------------------------------------------------
(* The thumbnail tier: selectThumbnailSize of ImageGrid and the quantization
   of the thumbnail endpoint *)

\* Math.round(containerWidth * Math.max(1, dpr)), dpr the fraction num/den
RequiredWidth(containerWidth, dpr) ==
    LET num == IF dpr.num >= dpr.den THEN dpr.num ELSE dpr.den
    IN  (2 * containerWidth * num + dpr.den) \div (2 * dpr.den)

selectThumbnailSize(containerWidth, dpr) ==
    LET requiredWidth == RequiredWidth(containerWidth, dpr)
    IN  IF requiredWidth <= 400 THEN 400
        ELSE IF requiredWidth <= 800 THEN 800
        ELSE 1600

\* the widths of the grid container and the device pixel ratios of the model
ContainerWidths == {25, 49, 200, 267, 400, 401, 500, 533, 800, 801, 1067, 1600, 1700}
PixelRatios == { [num |-> 1, den |-> 2], [num |-> 1, den |-> 1], [num |-> 3, den |-> 2],
                 [num |-> 2, den |-> 1], [num |-> 3, den |-> 1] }

\* the width parameter of the query: a number, a text that is no number, or
\* no parameter at all
Width(value) == [kind |-> "number", value |-> value]
QueryWidths ==
    {Width(w) : w \in {0, 49, 50, 399, 400, 401, 499, 799, 800, 801, 1599, 1600,
                       1601, 5000}}
        \cup {[kind |-> "text", value |-> 0], [kind |-> "missing", value |-> 0]}

\* parseInt(req.query.width || 800)
ParseWidth(query) ==
    [nan |-> query.kind = "text",
     value |-> IF query.kind = "missing" THEN 800 ELSE query.value]

NoTier == [pc |-> "idle", containerWidth |-> 0, dpr |-> [num |-> 1, den |-> 1],
           query |-> Width(0), status |-> 0, width |-> 0, cacheKey |-> <<>>]

\* the grid builds the thumbnail URL of picture a.jpg
GridRequests(containerWidth, dpr) ==
    /\ tier.pc # "sent"
    /\ tier' = [NoTier EXCEPT !.pc = "sent", !.containerWidth = containerWidth,
                              !.dpr = dpr,
                              !.query = Width(selectThumbnailSize(containerWidth, dpr))]
    /\ UNCHANGED <<scanVars, now, thumbVars, rescanVars, pathVars, passVars, pregenVars, inventoryVars, dataSourcesVars, gridVars, crawlVars, keysVars, treeVars, coverVars, loaderVars, snapVars>>

\* another client asks for a width of its own
OtherRequests(query) ==
    /\ tier.pc # "sent"
    /\ tier' = [NoTier EXCEPT !.pc = "sent", !.query = query]
    /\ UNCHANGED <<scanVars, now, thumbVars, rescanVars, pathVars, passVars, pregenVars, inventoryVars, dataSourcesVars, gridVars, crawlVars, keysVars, treeVars, coverVars, loaderVars, snapVars>>

\* the thumbnail endpoint up to the cache key
TierOfRequest ==
    /\ tier.pc = "sent"
    /\ tier' = LET requestedWidth == ParseWidth(tier.query)
               IN  IF requestedWidth.nan \/ requestedWidth.value < 50
                   THEN [tier EXCEPT !.pc = "done", !.status = 400]
                   ELSE
                    LET width == QuantizeWidth(requestedWidth.value)
                    IN  [tier EXCEPT !.pc = "done", !.status = 200, !.width = width,
                              !.cacheKey = getThumbCacheKeyTwitterStyle(
                                              ServerSourceName, "a.jpg", width)]
    /\ UNCHANGED <<scanVars, now, thumbVars, rescanVars, pathVars, passVars, pregenVars, inventoryVars, dataSourcesVars, gridVars, crawlVars, keysVars, treeVars, coverVars, loaderVars, snapVars>>

TierQuiet == tier = NoTier

----------------------------------------------------------------------------
(* scan.worker: the progress messages of one scan command *)

\* the sizes of the sources of a command: files below the directory handle,
\* pages with an item before the empty page
FileCounts == {0, 1, 21, 41}
PageCounts == {1, 2, 10}
SourceOrders == {<<LocalSource>>, <<RemoteSource>>,
                 <<LocalSource, RemoteSource>>, <<RemoteSource, LocalSource>>}

\* what getFileEntries returns for a handle with that many files, each one
\* folder deeper than the one before
EntriesOf(files) ==
    [i \in 1..files |-> [relativePath |-> [j \in 1..(i - 1) |-> "d"],
                         name         |-> "A.jpg",
                         lastModified |-> InitialFile.lastModified,
                         size         |-> InitialFile.size]]

\* an API that answers that many pages with an item
PagesOf(pages) == [page \in 1..pages |-> <<RemoteItem("http://u1", 5)>>]

\* the progress fields of the 'progress' messages among posts, in order
ProgressValues(posts) ==
    LET reports == SelectSeq(posts, LAMBDA m : m.type = "progress")
    IN  [i \in 1..Len(reports) |-> reports[i].progress]

NoPass == [pc |-> "idle", sources |-> <<>>, files |-> 0, pages |-> 0,
           idx |-> 1, posted |-> <<>>]

\* self.onmessage up to the for loop over the sources
PassStart(sources, files, pages) ==
    /\ pass.pc = "idle"
    /\ pass' = [pc |-> "walking", sources |-> sources, files |-> files,
                pages |-> pages, idx |-> 1, posted |-> <<0>>]
    /\ UNCHANGED <<scanVars, now, thumbVars, rescanVars, pathVars, tierVars, pregenVars, inventoryVars, dataSourcesVars, gridVars, crawlVars, keysVars, treeVars, coverVars, loaderVars, snapVars>>

\* scanLocalSource for the source at idx
PassWalkLocal ==
    /\ pass.pc = "walking" /\ pass.idx <= Len(pass.sources)
    /\ pass.sources[pass.idx].type = "local"
    /\ pass' = [pass EXCEPT
          !.idx = @ + 1,
          !.posted = @ \o ProgressValues(
                LocalLoop(pass.sources[pass.idx], {}, EntriesOf(pass.files), 0,
                          EmptyResults).posts)]
    /\ UNCHANGED <<scanVars, now, thumbVars, rescanVars, pathVars, tierVars, pregenVars, inventoryVars, dataSourcesVars, gridVars, crawlVars, keysVars, treeVars, coverVars, loaderVars, snapVars>>

\* scanRemoteSource for the source at idx
PassWalkRemote ==
    /\ pass.pc = "walking" /\ pass.idx <= Len(pass.sources)
    /\ pass.sources[pass.idx].type = "remote"
    /\ pass' = [pass EXCEPT
          !.idx = @ + 1,
          !.posted = @ \o ProgressValues(
                scanRemoteSource(pass.sources[pass.idx], {}, PagesOf(pass.pages),
                                 0, 1).posts)]
    /\ UNCHANGED <<scanVars, now, thumbVars, rescanVars, pathVars, tierVars, pregenVars, inventoryVars, dataSourcesVars, gridVars, crawlVars, keysVars, treeVars, coverVars, loaderVars, snapVars>>

\* the two postMessage calls after the loop
PassFinish ==
    /\ pass.pc = "walking" /\ pass.idx > Len(pass.sources)
    /\ pass' = [pass EXCEPT !.pc = "done", !.posted = Append(@, 100)]
    /\ UNCHANGED <<scanVars, now, thumbVars, rescanVars, pathVars, tierVars, pregenVars, inventoryVars, dataSourcesVars, gridVars, crawlVars, keysVars, treeVars, coverVars, loaderVars, snapVars>>

PassQuiet == pass = NoPass

----------------------------------------------------------------------------
(* Server: cleanupCacheIfNeeded and backgroundThumbnailPregen of server.cjs,
   one action per stretch between two awaits *)

MaxIdleChecks == 1     \* intervals of the pregeneration timer that pass

PREGEN_BATCH_SIZE == 5
PREGEN_IDLE_CHECK_MS == 30000

\* a heuristic that takes the system for idle at every tick
AlwaysIdle(entries, t) == TRUE

\* no entry was accessed in the last five seconds
isSystemIdle(entries, t) ==
    \A i \in 1..Len(entries) : ~(t - entries[i].modifiedAt < 5000)

\* initThumbnailPregenQueue: the pictures of serverDataCache, in order; one
\* more than a batch takes
initThumbnailPregenQueue ==
    <<"a.jpg", "broken.jpg", "b.jpg", "c.jpg", "d.jpg", "e.jpg">>

NoPregen ==
    [started |-> FALSE, spc |-> "off", expired |-> <<>>, at |-> 1,
     unlinked |-> FALSE, thumbnailPregenQueue |-> <<>>, isPregenRunning |-> FALSE,
     batch |-> <<>>, item |-> 1, size |-> 1, ppc |-> "off"]

\* the cache key the batch is at
PregenKey(p) ==
    getThumbCacheKeyTwitterStyle(ServerSourceName, p.batch[p.item],
                                 THUMBNAIL_SIZES_ARRAY[p.size])

\* a batch that ends with the item it is at
StopBatch(p) == [p EXCEPT !.ppc = "save"]

\* the next item of the batch, or the saveCacheMetadata after the last one
NextItem(p) ==
    IF p.item < Len(p.batch)
    THEN [p EXCEPT !.item = @ + 1, !.size = 1, !.ppc = "access"]
    ELSE [p EXCEPT !.ppc = "save"]

\* the next size of the item
NextSize(p) ==
    IF p.size < Len(THUMBNAIL_SIZES_ARRAY)
    THEN [p EXCEPT !.size = @ + 1, !.ppc = "access"]
    ELSE NextItem(p)

\* cleanupCacheIfNeeded is entered, by startServer (not started yet), by the
\* maintenance timer or by a thumbnail handler: readdir and stat, the eviction
\* loop with its save when the total is over the budget, then the list of the
\* expired entries and the call of unlink for the first of them (spc "ttl":
\* the unlink of expired[at] is called and has not reached the file system)
EvictBegin ==
    /\ pregen.spc = "off"
    /\ LET fileStats == FileStatsOf(cacheFiles)
           totalSize == SumStats(fileStats, DOMAIN fileStats)
           out == IF totalSize > MAX_CACHE_SIZE_BYTES
                  THEN EvictLoop(SortedEntries(cacheMetadata, fileStats), 1,
                                 totalSize, fileStats, cacheFiles, cacheMetadata, 0)
                  ELSE [files |-> cacheFiles, entries |-> cacheMetadata]
           expired == ExpiredEntries(out.entries, srvNow)
       IN  /\ cacheFiles' = out.files
           /\ cacheMetadata' = out.entries
           /\ metadataFile' = IF totalSize > MAX_CACHE_SIZE_BYTES
                              THEN out.entries ELSE metadataFile
           /\ pregen' = [pregen EXCEPT
                 !.spc = "ttl", !.at = 1,
                 !.expired = [i \in 1..Len(expired) |-> expired[i].filename]]
    /\ UNCHANGED <<metadataPartial, listening, reqs, sweeps, srvNow, restarts, arrivals>>
    /\ UNCHANGED <<scanVars, now, rescanVars, pathVars, tierVars, passVars, inventoryVars, dataSourcesVars, gridVars, crawlVars, keysVars, treeVars, coverVars, loaderVars, snapVars>>

\* the unlink the sweep has called reaches the file system: it removes the
\* file, or fails when there is none
EvictUnlink ==
    /\ pregen.spc = "ttl" /\ pregen.at <= Len(pregen.expired)
    /\ LET filename == pregen.expired[pregen.at]
       IN  /\ cacheFiles' = IF filename \in DOMAIN cacheFiles
                            THEN Remove(cacheFiles, filename) ELSE cacheFiles
           /\ pregen' = [pregen EXCEPT !.spc = "unlinking",
                                       !.unlinked = filename \in DOMAIN cacheFiles]
    /\ UNCHANGED <<cacheMetadata, metadataFile, metadataPartial, listening, reqs, sweeps, srvNow, restarts, arrivals>>
    /\ UNCHANGED <<scanVars, now, rescanVars, pathVars, tierVars, passVars, inventoryVars, dataSourcesVars, gridVars, crawlVars, keysVars, treeVars, coverVars, loaderVars, snapVars>>

\* the loop goes on after the await: delete cacheMetadata.entries[filename],
\* or the catch when the unlink has failed, and the call of the next unlink
EvictUnlinked ==
    /\ pregen.spc = "unlinking"
    /\ cacheMetadata' = IF pregen.unlinked
                        THEN DeleteEntry(cacheMetadata, pregen.expired[pregen.at])
                        ELSE cacheMetadata
    /\ pregen' = [pregen EXCEPT !.spc = "ttl", !.at = @ + 1]
    /\ UNCHANGED <<cacheFiles, metadataFile, metadataPartial, listening, reqs, sweeps, srvNow, restarts, arrivals>>
    /\ UNCHANGED <<scanVars, now, rescanVars, pathVars, tierVars, passVars, inventoryVars, dataSourcesVars, gridVars, crawlVars, keysVars, treeVars, coverVars, loaderVars, snapVars>>

\* after the loop: saveCacheMetadata when there were expired entries, and the
\* return; startServer goes on to the timers and the pregeneration queue
EvictSave ==
    /\ pregen.spc = "ttl" /\ pregen.at > Len(pregen.expired)
    /\ metadataFile' = IF Len(pregen.expired) > 0 THEN cacheMetadata ELSE metadataFile
    /\ pregen' = [pregen EXCEPT
          !.spc = "off", !.expired = <<>>, !.at = 1, !.started = TRUE,
          !.thumbnailPregenQueue =
              IF pregen.started THEN @ ELSE initThumbnailPregenQueue]
    /\ UNCHANGED <<cacheFiles, cacheMetadata, metadataPartial, listening, reqs, sweeps, srvNow, restarts, arrivals>>
    /\ UNCHANGED <<scanVars, now, rescanVars, pathVars, tierVars, passVars, inventoryVars, dataSourcesVars, gridVars, crawlVars, keysVars, treeVars, coverVars, loaderVars, snapVars>>

\* the interval of startThumbnailPregenTimer fires: backgroundThumbnailPregen
\* up to its first await
PregenTimer ==
    /\ pregen.started
    /\ ~pregen.isPregenRunning /\ Len(pregen.thumbnailPregenQueue) > 0
    /\ isSystemIdle(cacheMetadata, srvNow)
    /\ LET queue == pregen.thumbnailPregenQueue
           n == IF Len(queue) < PREGEN_BATCH_SIZE THEN Len(queue)
                ELSE PREGEN_BATCH_SIZE
       IN  pregen' = [pregen EXCEPT
              !.isPregenRunning = TRUE,
              !.batch = SubSeq(queue, 1, n),
              !.thumbnailPregenQueue = SubSeq(queue, n + 1, Len(queue)),
              !.item = 1, !.size = 1, !.ppc = "access"]
    /\ UNCHANGED <<cacheFiles, cacheMetadata, metadataFile, metadataPartial, listening, reqs, sweeps, srvNow, restarts, arrivals>>
    /\ UNCHANGED <<scanVars, now, rescanVars, pathVars, tierVars, passVars, inventoryVars, dataSourcesVars, gridVars, crawlVars, keysVars, treeVars, coverVars, loaderVars, snapVars>>

\* the batch goes on after fs.promises.access(cachePath): a size that exists
\* is skipped
PregenAccess ==
    /\ pregen.ppc = "access"
    /\ pregen' = IF PregenKey(pregen) \in DOMAIN cacheFiles
                 THEN NextSize(pregen)
                 ELSE [pregen EXCEPT !.ppc = "generate"]
    /\ UNCHANGED <<cacheFiles, cacheMetadata, metadataFile, metadataPartial, listening, reqs, sweeps, srvNow, restarts, arrivals>>
    /\ UNCHANGED <<scanVars, now, rescanVars, pathVars, tierVars, passVars, inventoryVars, dataSourcesVars, gridVars, crawlVars, keysVars, treeVars, coverVars, loaderVars, snapVars>>

\* sharp(...).metadata(), the resize, the mkdir, and writeFile(cachePath)
\* reaches the file system; an image sharp cannot read throws to the catch of
\* the item
PregenGenerate ==
    /\ pregen.ppc = "generate"
    /\ IF pregen.batch[pregen.item] \in UnreadableImages
       THEN /\ pregen' = NextItem(pregen)
            /\ UNCHANGED cacheFiles
       ELSE /\ cacheFiles' =
                  [p \in DOMAIN cacheFiles \cup {PregenKey(pregen)} |->
                      IF p = PregenKey(pregen)
                      THEN BufferLength(THUMBNAIL_SIZES_ARRAY[pregen.size])
                      ELSE cacheFiles[p]]
            /\ pregen' = [pregen EXCEPT !.ppc = "record"]
    /\ UNCHANGED <<cacheMetadata, metadataFile, metadataPartial, listening, reqs, sweeps, srvNow, restarts, arrivals>>
    /\ UNCHANGED <<scanVars, now, rescanVars, pathVars, tierVars, passVars, inventoryVars, dataSourcesVars, gridVars, crawlVars, keysVars, treeVars, coverVars, loaderVars, snapVars>>

\* the batch goes on after the writeFile: recordCacheEntry
PregenRecord ==
    /\ pregen.ppc = "record"
    /\ cacheMetadata' = recordCacheEntry(cacheMetadata, PregenKey(pregen),
                            BufferLength(THUMBNAIL_SIZES_ARRAY[pregen.size]), srvNow)
    /\ pregen' = NextSize(pregen)
    /\ UNCHANGED <<cacheFiles, metadataFile, metadataPartial, listening, reqs, sweeps, srvNow, restarts, arrivals>>
    /\ UNCHANGED <<scanVars, now, rescanVars, pathVars, tierVars, passVars, inventoryVars, dataSourcesVars, gridVars, crawlVars, keysVars, treeVars, coverVars, loaderVars, snapVars>>

\* saveCacheMetadata after the batch, and the finally
PregenSave ==
    /\ pregen.ppc = "save"
    /\ metadataFile' = cacheMetadata
    /\ pregen' = [pregen EXCEPT !.ppc = "off", !.isPregenRunning = FALSE,
                                !.batch = <<>>, !.item = 1, !.size = 1]
    /\ UNCHANGED <<cacheFiles, cacheMetadata, metadataPartial, listening, reqs, sweeps, srvNow, restarts, arrivals>>
    /\ UNCHANGED <<scanVars, now, rescanVars, pathVars, tierVars, passVars, inventoryVars, dataSourcesVars, gridVars, crawlVars, keysVars, treeVars, coverVars, loaderVars, snapVars>>

\* an interval of the pregeneration timer passes without a request
PregenIdle ==
    /\ pregen.started
    /\ pregen.spc = "off" /\ pregen.ppc = "off"
    /\ srvNow < ThumbStart + MaxIdleChecks * PREGEN_IDLE_CHECK_MS
    /\ srvNow' = srvNow + PREGEN_IDLE_CHECK_MS
    /\ UNCHANGED <<cacheFiles, cacheMetadata, metadataFile, metadataPartial, listening, reqs, sweeps, restarts, arrivals, pregen>>
    /\ UNCHANGED <<scanVars, now, rescanVars, pathVars, tierVars, passVars, inventoryVars, dataSourcesVars, gridVars, crawlVars, keysVars, treeVars, coverVars, loaderVars, snapVars>>

\* the process is stopped and started again: what is in memory is gone,
\* startServer loads the metadata file and enters the initial cleanup
PregenRestart ==
    /\ restarts < MaxRestarts
    /\ restarts' = restarts + 1
    /\ cacheMetadata' = loadCacheMetadata(metadataFile, metadataPartial)
    /\ pregen' = NoPregen
    /\ UNCHANGED <<cacheFiles, metadataFile, metadataPartial, listening, reqs, sweeps, srvNow, arrivals>>
    /\ UNCHANGED <<scanVars, now, rescanVars, pathVars, tierVars, passVars, inventoryVars, dataSourcesVars, gridVars, crawlVars, keysVars, treeVars, coverVars, loaderVars, snapVars>>

PregenQuiet == pregen = NoPregen

----------------------------------------------------------------------------
(* Server: scanServerFolders of server.cjs walking the mounted folders, the
   inventory it publishes and the routes that read it *)

MaxDiskChanges == 2       \* changes below /server_images in one behaviour
MaxInventoryScans == 2    \* executions of scanServerFolders in one behaviour

SERVER_SOURCE_ID_OFFSET == 10000

\* the subfolders of /server_images in the order readdir lists them, and the
\* image files of each
MountDirs == <<ServerSourceName, "Trips">>
DirFiles(dir) == IF dir = ServerSourceName THEN <<"a.jpg", "broken.jpg">> ELSE <<"b.jpg">>
Mtime(file) == IF file = "a.jpg" THEN 10 ELSE IF file = "b.jpg" THEN 20 ELSE 30
SourcePath(name) == <<"/server_images", name>>

\* what is mounted when the server starts
MountedDisk ==
    [d \in {MountDirs[i] : i \in 1..Len(MountDirs)} |->
        [present |-> TRUE, listable |-> TRUE,
         files |-> {DirFiles(d)[i] : i \in 1..Len(DirFiles(d))}]]

\* the changes a watched folder can see
DiskChanges(disk) ==
    {[disk EXCEPT ![d].present = ~@] : d \in DOMAIN disk} \cup
    {[disk EXCEPT ![d].listable = ~@] : d \in DOMAIN disk} \cup
    UNION {{[disk EXCEPT ![d].files = IF f \in @ THEN @ \ {f} ELSE @ \cup {f}] :
              f \in {DirFiles(d)[i] : i \in 1..Len(DirFiles(d))}} : d \in DOMAIN disk}

\* entries.filter(en => en.isDirectory()) of the auto-discovery
Discovered(disk) == SelectSeq(MountDirs, LAMBDA d : disk[d].present)

\* getFilesRecursively(sourceRootPath), when its readdir does not throw
Listing(disk, dir) == SelectSeq(DirFiles(dir), LAMBDA f : f \in disk[dir].files)

\* serverDataCache.pictures.sort((a, b) => b.modified - a.modified), stable
SortByModified(pics) == SortSeq(pics, LAMBDA a, b : a.modified > b.modified)

NoSnapshot == [sources |-> <<>>, pictures |-> <<>>, sourceConfig |-> {}]

\* one execution of scanServerFolders before its first await
NewExecution(origin) ==
    [origin |-> origin, pc |-> "discover", sources |-> <<>>, si |-> 1, files |-> <<>>,
     nextSources |-> <<>>, nextPictures |-> <<>>, nextSourceConfig |-> {},
     pictureIdCounter |-> 0, sourcePictureCount |-> 0, undecoded |-> {},
     payload |-> NoSnapshot]

\* the head of the loop over the sources: the DTO is pushed and the root is
\* registered before getFilesRecursively is awaited
ForSources(e) ==
    IF e.si > Len(e.sources) THEN [e EXCEPT !.pc = "publish"]
    ELSE LET name == e.sources[e.si]
             sourceDto == [id |-> SERVER_SOURCE_ID_OFFSET + Len(e.nextSources),
                           type |-> "server", name |-> name, pictureCount |-> 0]
         IN [e EXCEPT !.nextSources = Append(@, sourceDto),
                      !.nextSourceConfig = @ \cup {<<name, SourcePath(name)>>},
                      !.sourcePictureCount = 0,
                      !.pc = "listing"]

\* sourceDto.pictureCount = sourcePictureCount, then the next source
AfterFiles(e) ==
    ForSources([e EXCEPT !.nextSources[Len(e.nextSources)].pictureCount =
                              e.sourcePictureCount,
                         !.si = @ + 1])

\* the body of the loop over the files of a source: the try pushes the
\* picture, the catch only warns
ProcessFile(e, disk) ==
    LET dir == e.sources[e.si]
        file == Head(e.files)
        exists == disk[dir].present /\ file \in disk[dir].files
        sourceId == SERVER_SOURCE_ID_OFFSET + Len(e.nextSources) - 1
        pushed == [e EXCEPT !.nextPictures = Append(@,
                                [id |-> e.pictureIdCounter, sourceId |-> sourceId,
                                 name |-> file,
                                 path |-> <<"/server-images", dir, file>>,
                                 modified |-> Mtime(file)]),
                            !.pictureIdCounter = @ + 1,
                            !.sourcePictureCount = @ + 1]
        warned == [e EXCEPT !.undecoded =
                          IF exists THEN @ \cup {<<sourceId, file>>} ELSE @]
        done == IF exists /\ file \notin UnreadableImages THEN pushed ELSE warned
        rest == [done EXCEPT !.files = Tail(@)]
    IN IF rest.files = <<>> THEN AfterFiles(rest) ELSE rest

\* an inventory whose configuration is left as it was
PublishedWithoutConfig(e) ==
    [sources |-> e.nextSources, pictures |-> SortByModified(e.nextPictures),
     sourceConfig |-> inventory.sourceConfig]

\* the assignments after the loops: sources, pictures, serverSourceConfig and
\* the sort, with no await between them
Published(e) ==
    [sources |-> e.nextSources, pictures |-> SortByModified(e.nextPictures),
     sourceConfig |-> e.nextSourceConfig]

\* the execution i goes on as e up to its next await
Continue(i, e) ==
    IF e.pc = "publish"
    THEN [inventory EXCEPT !.sources = Published(e).sources,
                           !.pictures = Published(e).pictures,
                           !.sourceConfig = Published(e).sourceConfig,
                           !.undecoded = e.undecoded,
                           !.published = @ + 1,
                           !.execs[i] = [e EXCEPT !.pc = "persist",
                                                  !.payload = Published(e)]]
    ELSE [inventory EXCEPT !.execs[i] = e]

\* the execution i returns: startServer goes on to app.listen, the finally of
\* the timer callback clears isScanningServer
Returned(inv, i) ==
    [inv EXCEPT !.execs = SubSeq(@, 1, i - 1) \o SubSeq(@, i + 1, Len(@)),
                !.pc = IF inv.execs[i].origin = "startServer" THEN "up" ELSE @,
                !.isScanningServer =
                    IF inv.execs[i].origin = "rescanTimer" THEN FALSE ELSE @]

NoInventory ==
    [pc |-> "off", disk |-> MountedDisk, changes |-> 0,
     sources |-> <<>>, pictures |-> <<>>, sourceConfig |-> {},
     persisted |-> NoSnapshot, isScanningServer |-> FALSE, timer |-> FALSE,
     execs |-> <<>>, started |-> 0, published |-> 0, undecoded |-> {},
     restarts |-> 0, response |-> [route |-> "none"]]

\* startServer from loadServerCache on: the persisted inventory is loaded,
\* the watchers are set up, then the first scan is awaited or a rescan is
\* triggered
InventoryBoot ==
    /\ inventory.pc = "boot"
    /\ LET loaded == [inventory EXCEPT !.sources = inventory.persisted.sources,
                                       !.pictures = inventory.persisted.pictures,
                                       !.sourceConfig = inventory.persisted.sourceConfig]
       IN inventory' =
            IF Len(loaded.sources) = 0
            THEN [loaded EXCEPT !.pc = "starting",
                                !.execs = <<NewExecution("startServer")>>,
                                !.started = @ + 1]
            ELSE [loaded EXCEPT !.pc = "up", !.timer = TRUE]
    /\ UNCHANGED <<scanVars, now, thumbVars, rescanVars, pathVars, tierVars, passVars, pregenVars, dataSourcesVars, gridVars, crawlVars, keysVars, treeVars, coverVars, loaderVars, snapVars>>

\* chokidar reports a change below a watched path: triggerRescan
DiskChange ==
    /\ inventory.pc \in {"starting", "up"}
    /\ inventory.changes < MaxDiskChanges
    /\ \E disk \in DiskChanges(inventory.disk) :
          inventory' = [inventory EXCEPT !.disk = disk,
                                         !.changes = @ + 1,
                                         !.timer = IF inventory.isScanningServer
                                                   THEN @ ELSE TRUE]
    /\ UNCHANGED <<scanVars, now, thumbVars, rescanVars, pathVars, tierVars, passVars, pregenVars, dataSourcesVars, gridVars, crawlVars, keysVars, treeVars, coverVars, loaderVars, snapVars>>

\* the callback of the debounce timer runs up to the first await of
\* scanServerFolders
InventoryTimer ==
    /\ inventory.timer
    /\ inventory.started < MaxInventoryScans
    /\ inventory' = [inventory EXCEPT !.timer = FALSE,
                                      !.isScanningServer = TRUE,
                                      !.execs = Append(@, NewExecution("rescanTimer")),
                                      !.started = @ + 1]
    /\ UNCHANGED <<scanVars, now, thumbVars, rescanVars, pathVars, tierVars, passVars, pregenVars, dataSourcesVars, gridVars, crawlVars, keysVars, treeVars, coverVars, loaderVars, snapVars>>

\* readdir of /server_images returns
InventoryDiscovered(i) ==
    /\ i \in 1..Len(inventory.execs)
    /\ inventory.execs[i].pc = "discover"
    /\ inventory' = Continue(i, ForSources([inventory.execs[i] EXCEPT
                                   !.sources = Discovered(inventory.disk)]))
    /\ UNCHANGED <<scanVars, now, thumbVars, rescanVars, pathVars, tierVars, passVars, pregenVars, dataSourcesVars, gridVars, crawlVars, keysVars, treeVars, coverVars, loaderVars, snapVars>>

\* getFilesRecursively returns the files of the source
InventoryListed(i) ==
    /\ i \in 1..Len(inventory.execs)
    /\ inventory.execs[i].pc = "listing"
    /\ LET e == inventory.execs[i]
           dir == e.sources[e.si]
       IN /\ inventory.disk[dir].present /\ inventory.disk[dir].listable
          /\ LET listed == [e EXCEPT !.files = Listing(inventory.disk, dir),
                                     !.pc = "metadata"]
             IN inventory' = Continue(i, IF listed.files = <<>> THEN AfterFiles(listed)
                                         ELSE listed)
    /\ UNCHANGED <<scanVars, now, thumbVars, rescanVars, pathVars, tierVars, passVars, pregenVars, dataSourcesVars, gridVars, crawlVars, keysVars, treeVars, coverVars, loaderVars, snapVars>>

\* getFilesRecursively throws: the outer catch logs, nothing is assigned
InventoryThrows(i) ==
    /\ i \in 1..Len(inventory.execs)
    /\ inventory.execs[i].pc = "listing"
    /\ LET e == inventory.execs[i]
           dir == e.sources[e.si]
       IN ~(inventory.disk[dir].present /\ inventory.disk[dir].listable)
    /\ inventory' = Returned(inventory, i)
    /\ UNCHANGED <<scanVars, now, thumbVars, rescanVars, pathVars, tierVars, passVars, pregenVars, dataSourcesVars, gridVars, crawlVars, keysVars, treeVars, coverVars, loaderVars, snapVars>>

\* sharp(file).metadata() of the next file settles
InventoryMetadata(i) ==
    /\ i \in 1..Len(inventory.execs)
    /\ inventory.execs[i].pc = "metadata"
    /\ inventory' = Continue(i, ProcessFile(inventory.execs[i], inventory.disk))
    /\ UNCHANGED <<scanVars, now, thumbVars, rescanVars, pathVars, tierVars, passVars, pregenVars, dataSourcesVars, gridVars, crawlVars, keysVars, treeVars, coverVars, loaderVars, snapVars>>

\* persistServerCache of the execution ends: the rename replaced the file,
\* or a failure was logged
InventoryPersisted(i, written) ==
    /\ i \in 1..Len(inventory.execs)
    /\ inventory.execs[i].pc = "persist"
    /\ inventory' = Returned([inventory EXCEPT !.persisted =
                                  IF written THEN inventory.execs[i].payload ELSE @], i)
    /\ UNCHANGED <<scanVars, now, thumbVars, rescanVars, pathVars, tierVars, passVars, pregenVars, dataSourcesVars, gridVars, crawlVars, keysVars, treeVars, coverVars, loaderVars, snapVars>>

\* GET /api/server-data
ServerData ==
    /\ inventory.pc = "up"
    /\ inventory' = [inventory EXCEPT !.response =
                        [route |-> "server-data", sources |-> inventory.sources]]
    /\ UNCHANGED <<scanVars, now, thumbVars, rescanVars, pathVars, tierVars, passVars, pregenVars, dataSourcesVars, gridVars, crawlVars, keysVars, treeVars, coverVars, loaderVars, snapVars>>

\* GET /api/server-pictures?sourceIds=<id>, with the default offset and limit
ServerPictures(sourceId) ==
    /\ inventory.pc = "up"
    /\ LET picturesToFilter ==
               SelectSeq(inventory.pictures, LAMBDA p : p.sourceId = sourceId)
       IN inventory' = [inventory EXCEPT !.response =
                           [route |-> "server-pictures", pictures |-> picturesToFilter,
                            hasMore |-> FALSE, total |-> Len(picturesToFilter)]]
    /\ UNCHANGED <<scanVars, now, thumbVars, rescanVars, pathVars, tierVars, passVars, pregenVars, dataSourcesVars, gridVars, crawlVars, keysVars, treeVars, coverVars, loaderVars, snapVars>>

\* the process is stopped and started again: the memory is lost, the file
\* server-cache.json stays
InventoryRestart ==
    /\ inventory.pc \in {"starting", "up"}
    /\ inventory.restarts < MaxRestarts
    /\ inventory' = [NoInventory EXCEPT !.pc = "boot",
                                        !.disk = inventory.disk,
                                        !.changes = inventory.changes,
                                        !.started = inventory.started,
                                        !.persisted = inventory.persisted,
                                        !.restarts = inventory.restarts + 1]
    /\ UNCHANGED <<scanVars, now, thumbVars, rescanVars, pathVars, tierVars, passVars, pregenVars, dataSourcesVars, gridVars, crawlVars, keysVars, treeVars, coverVars, loaderVars, snapVars>>

InventoryQuiet == inventory = NoInventory

----------------------------------------------------------------------------
(* App: the table of data sources and confirmDelete of DataSourceList.tsx *)

\* confirmDelete: one transaction deletes the pictures of the source and the
\* source; the list is reachable while the scan modal is closed
ConfirmDelete(id) ==
    /\ ~isScanning
    /\ id \in dataSources
    /\ pictures' = {p \in pictures : p.sourceId # id}
    /\ dataSources' = dataSources \ {id}
    /\ UNCHANGED <<scanEnv, nextId, pictureCount, isScanning, scanProgress, workVars,
                   histVars, now>>
    /\ UNCHANGED <<thumbVars, rescanVars, pathVars, tierVars, passVars, pregenVars, inventoryVars, gridVars, crawlVars, keysVars, treeVars, coverVars, loaderVars, snapVars>>

\* no source was deleted
DataSourcesQuiet == dataSources = SourceIds

----------------------------------------------------------------------------
(* Grid: loadMoreItems of ImageGrid.tsx and the grouping of layoutUtils *)

BATCH_SIZE == 50
INITIAL_LOAD_MULTIPLIER == 3
DayMs == 86400000

\* how many pictures IndexedDB and the server hold for the filter, and how
\* their modification times lie to each other
ClientCounts == {0, 1, 151}
ServerCounts == {0, 1, 151}
Layouts == {"clientNewer", "serverNewer", "interleaved"}

\* the modification time of the k-th newest picture of the newer side and of
\* the older side, all of one day, and of the two sides when they alternate
\* over three days
NewerModified(k) == DayMs - k * 1000
OlderModified(k) == DayMs \div 2 - k
ClientModified(layout, k) ==
    IF layout = "clientNewer" THEN NewerModified(k)
    ELSE IF layout = "serverNewer" THEN OlderModified(k)
    ELSE 3 * DayMs - (2 * k) * (DayMs \div 200)
ServerModified(layout, k) ==
    IF layout = "serverNewer" THEN NewerModified(k)
    ELSE IF layout = "clientNewer" THEN OlderModified(k)
    ELSE 3 * DayMs - (2 * k + 1) * (DayMs \div 200)

Reverse(s) == [i \in 1..Len(s) |-> s[Len(s) + 1 - i]]

\* collection.sortBy('modified') of the selected client sources: oldest first
SortedByModified(config) ==
    [j \in 1..config.client |->
        [sourceId |-> LocalSource.id, relativePath |-> config.client + 1 - j,
         modified |-> ClientModified(config.layout, config.client + 1 - j)]]

\* the pictures /api/server-pictures filters for the selected server
\* sources: newest first
PicturesToFilter(config) ==
    [k \in 1..config.server |->
        [sourceId |-> SERVER_SOURCE_ID_OFFSET, relativePath |-> k,
         modified |-> ServerModified(config.layout, k)]]

Slice(s, offset, limit) ==
    SubSeq(s, offset + 1, IF offset + limit < Len(s) THEN offset + limit ELSE Len(s))

loadClientPictures(config, limit, offset) ==
    LET sorted == Reverse(SortedByModified(config))
        slice == Slice(sorted, offset, limit)
    IN [pictures |-> slice, hasMore |-> Len(sorted) > offset + Len(slice),
        newOffset |-> offset + Len(slice)]

\* the fetch of /api/server-pictures and its catch
loadServerPictures(config, limit, offset, ok) ==
    LET paginatedPictures == Slice(PicturesToFilter(config), offset, limit)
    IN IF ok
       THEN [pictures |-> paginatedPictures,
             hasMore |-> offset + Len(paginatedPictures) < config.server,
             newOffset |-> offset + Len(paginatedPictures)]
       ELSE [pictures |-> <<>>, hasMore |-> FALSE, newOffset |-> offset]

getKey(p) == <<p.sourceId, p.relativePath>>

\* the loop that drops the pictures of the batch with a key seen before
Deduplicate(incoming) ==
    LET kept == SelectSeq([i \in 1..Len(incoming) |-> i],
                          LAMBDA i : \A j \in 1..(i - 1) :
                                        getKey(incoming[j]) # getKey(incoming[i]))
    IN [n \in 1..Len(kept) |-> incoming[kept[n]]]

\* the updater of setItems
AddToItems(currentItems, allowedBatch) ==
    IF currentItems = <<>> THEN allowedBatch
    ELSE LET existing == {getKey(currentItems[i]) : i \in 1..Len(currentItems)}
         IN currentItems \o SelectSeq(allowedBatch, LAMBDA p : getKey(p) \notin existing)

NoResult == [pictures |-> <<>>, hasMore |-> FALSE, newOffset |-> 0 - 1]
NoGrid == [pc |-> "off", config |-> [client |-> 0, server |-> 0, layout |-> "interleaved"],
           clientOffset |-> 0, serverOffset |-> 0, hasMore |-> FALSE,
           isBatchLoading |-> FALSE, limit |-> 0,
           clientResult |-> NoResult, serverResult |-> NoResult,
           items |-> <<>>, batches |-> 0]

\* the effect that resets the grid for a filter
GridReset(config) ==
    /\ grid.pc = "off"
    /\ config.client + config.server > 0
    /\ grid' = [NoGrid EXCEPT !.pc = "idle", !.config = config, !.hasMore = TRUE]
    /\ UNCHANGED <<scanVars, now, thumbVars, rescanVars, pathVars, tierVars, passVars, pregenVars, inventoryVars, dataSourcesVars, crawlVars, keysVars, treeVars, coverVars, loaderVars, snapVars>>

\* loadMoreItems up to its await
LoadMoreItems ==
    /\ grid.pc = "idle"
    /\ ~grid.isBatchLoading /\ grid.hasMore
    /\ grid' = [grid EXCEPT !.pc = "loading",
                            !.isBatchLoading = TRUE,
                            !.limit = IF grid.clientOffset = 0 /\ grid.serverOffset = 0
                                      THEN BATCH_SIZE * INITIAL_LOAD_MULTIPLIER
                                      ELSE BATCH_SIZE,
                            !.clientResult = NoResult,
                            !.serverResult = NoResult]
    /\ UNCHANGED <<scanVars, now, thumbVars, rescanVars, pathVars, tierVars, passVars, pregenVars, inventoryVars, dataSourcesVars, crawlVars, keysVars, treeVars, coverVars, loaderVars, snapVars>>

\* loadClientPictures resolves
ClientPicturesLoaded ==
    /\ grid.pc = "loading"
    /\ grid.clientResult = NoResult
    /\ grid' = [grid EXCEPT !.clientResult =
                   loadClientPictures(grid.config, grid.limit, grid.clientOffset)]
    /\ UNCHANGED <<scanVars, now, thumbVars, rescanVars, pathVars, tierVars, passVars, pregenVars, inventoryVars, dataSourcesVars, crawlVars, keysVars, treeVars, coverVars, loaderVars, snapVars>>

\* loadServerPictures resolves
ServerPicturesLoaded(ok) ==
    /\ grid.pc = "loading"
    /\ grid.serverResult = NoResult
    /\ grid' = [grid EXCEPT !.serverResult =
                   loadServerPictures(grid.config, grid.limit, grid.serverOffset, ok)]
    /\ UNCHANGED <<scanVars, now, thumbVars, rescanVars, pathVars, tierVars, passVars, pregenVars, inventoryVars, dataSourcesVars, crawlVars, keysVars, treeVars, coverVars, loaderVars, snapVars>>

\* loadMoreItems after Promise.all: the offsets, the sorted and deduplicated
\* batch, hasMore, setItems and the finally
BatchLoaded ==
    /\ grid.pc = "loading"
    /\ grid.clientResult # NoResult /\ grid.serverResult # NoResult
    /\ \E incoming \in {SortByModified(grid.clientResult.pictures \o
                                        grid.serverResult.pictures)} :
       \E allowedBatch \in {Deduplicate(incoming)} :
          grid' = [grid EXCEPT !.pc = "idle",
                               !.clientOffset = grid.clientResult.newOffset,
                               !.serverOffset = grid.serverResult.newOffset,
                               !.hasMore = grid.clientResult.hasMore \/
                                           grid.serverResult.hasMore,
                               !.items = IF allowedBatch = <<>> THEN @
                                         ELSE AddToItems(@, allowedBatch),
                               !.batches = @ + 1,
                               !.isBatchLoading = FALSE]
    /\ UNCHANGED <<scanVars, now, thumbVars, rescanVars, pathVars, tierVars, passVars, pregenVars, inventoryVars, dataSourcesVars, crawlVars, keysVars, treeVars, coverVars, loaderVars, snapVars>>

\* formatGroupKey for groupBy 'day'
formatGroupKey(timestamp) == timestamp \div DayMs

\* groupAndLayoutPictures: the groups in the order their first picture
\* appears, each with its pictures in the order of the list
RECURSIVE GroupsFrom(_, _)
GroupsFrom(pics, done) ==
    LET left == SelectSeq(pics, LAMBDA p : formatGroupKey(p.modified) \notin done)
    IN IF left = <<>> THEN <<>>
       ELSE LET key == formatGroupKey(left[1].modified)
            IN SelectSeq(left, LAMBDA p : formatGroupKey(p.modified) = key) \o
               GroupsFrom(left, done \cup {key})
groupAndLayoutPictures(pics) == GroupsFrom(pics, {})

GridQuiet == grid = NoGrid

----------------------------------------------------------------------------
(* scan.worker: one crawl of scanRemoteSource, by its cap, the pages the
   endpoint serves and the request that fails *)

MaxImagesValues == 0..3

\* the pages of an endpoint: each item once, an item served again on the
\* next page, an empty page before the last one
Item(n) == RemoteItem(IF n = 1 THEN "http://u1" ELSE IF n = 2 THEN "http://u2"
                      ELSE "http://u3", 5)
PageLists ==
    { <<>>,
      << <<Item(1)>> >>,
      << <<Item(1)>>, <<Item(2)>> >>,
      << <<Item(1), Item(2)>> >>,
      << <<Item(1), Item(2)>>, <<Item(3)>> >>,
      << <<Item(1)>>, <<>>, <<Item(2)>> >>,
      << <<Item(1)>>, <<Item(1)>>, <<Item(2)>> >>,
      << <<Item(1), Item(2), Item(3)>> >>,
      << <<Item(1)>>, <<Item(2)>>, <<Item(3)>> >> }

NoCrawl == [pc |-> "idle", maxImages |-> 0, pages |-> <<>>, failPage |-> 0,
            seenKeys |-> {}, adds |-> 0, requests |-> 0, failed |-> FALSE]

\* scanRemoteSource runs for a source with the cap maxImages; each turn of
\* its loop posts one 'progress' message and sends one request
Crawl(maxImages, pages, failPage) ==
    /\ crawl.pc = "idle"
    /\ LET results == scanRemoteSource([RemoteSource EXCEPT !.maxImages = maxImages],
                                       {}, pages, failPage, 1)
       IN crawl' = [pc |-> "done", maxImages |-> maxImages, pages |-> pages,
                    failPage |-> failPage,
                    seenKeys |-> results.seenKeys,
                    adds |-> Len(results.adds),
                    requests |-> Len(ProgressValues(results.posts)),
                    failed |-> \E i \in 1..Len(results.posts) :
                                   results.posts[i].type = "error"]
    /\ UNCHANGED <<scanVars, now, thumbVars, rescanVars, pathVars, tierVars, passVars, pregenVars, inventoryVars, dataSourcesVars, gridVars, keysVars, treeVars, coverVars, loaderVars, snapVars>>

\* the next scan command
CrawlReturns ==
    /\ crawl.pc = "done"
    /\ crawl' = NoCrawl
    /\ UNCHANGED <<scanVars, now, thumbVars, rescanVars, pathVars, tierVars, passVars, pregenVars, inventoryVars, dataSourcesVars, gridVars, keysVars, treeVars, coverVars, loaderVars, snapVars>>

CrawlQuiet == crawl = NoCrawl

----------------------------------------------------------------------------
(* Server: the cache key of one picture on the way of the pregeneration
   (initThumbnailPregenQueue, backgroundThumbnailPregen) and on the way of a
   request of the grid (thumbUrl, the thumbnail endpoint) *)

\* names of server sources and files below their roots, some with
\* characters that URLs escape
SourceNames == {"Album", "My Album", "R&D"}
FileNames == {"a.jpg", "b c.jpg", "c#1.jpg"}

\* encodeURIComponent and decodeURIComponent on these texts
encodeURIComponent(text) ==
    CASE text = "My Album" -> "My%20Album"
      [] text = "R&D" -> "R%26D"
      [] text = "b c.jpg" -> "b%20c.jpg"
      [] text = "c#1.jpg" -> "c%231.jpg"
      [] OTHER -> text
decodeText(text) ==
    CASE text = "My%20Album" -> "My Album"
      [] text = "R%26D" -> "R&D"
      [] text = "b%20c.jpg" -> "b c.jpg"
      [] text = "c%231.jpg" -> "c#1.jpg"
      [] OTHER -> text

\* picture.path of scanServerFolders, by its segments
PicturePath(sourceName, file) ==
    <<"server-images", encodeURIComponent(sourceName), encodeURIComponent(file)>>

\* picture.path.match(/^\/server-images\/([^/]+)\/(.+)$/)
PathMatch(picturePath) == [source |-> picturePath[2], subPath |-> picturePath[3]]

\* the item initThumbnailPregenQueue pushes for a picture
QueueItem(picturePath) ==
    [sourceName |-> decodeText(PathMatch(picturePath).source),
     imageSubPath |-> PathMatch(picturePath).subPath]

\* thumbPath of /api/server-pictures and the thumbUrl the grid builds from
\* it, by the segments after /api/server-images-thumb
ThumbUrl(srcName, picturePath) ==
    <<encodeURIComponent(srcName), PathMatch(picturePath).subPath>>

NoKeys == [pc |-> "idle", sourceName |-> "", file |-> "", path |-> <<>>,
           size |-> 0, pregenKey |-> <<>>, width |-> 0, requestKey |-> <<>>,
           known |-> FALSE]

\* scanServerFolders lists the file of a source
KeyScanned(sourceName, file) ==
    /\ keys.pc = "idle"
    /\ keys' = [NoKeys EXCEPT !.pc = "listed", !.sourceName = sourceName,
                              !.file = file,
                              !.path = PicturePath(sourceName, file)]
    /\ UNCHANGED <<scanVars, now, thumbVars, rescanVars, pathVars, tierVars, passVars, pregenVars, inventoryVars, dataSourcesVars, gridVars, crawlVars, treeVars, coverVars, loaderVars, snapVars>>

\* a batch of backgroundThumbnailPregen computes the key of one size
KeyPregenerated(size) ==
    /\ keys.pc = "listed"
    /\ LET item == QueueItem(keys.path)
       IN keys' = [keys EXCEPT !.pc = "pregenerated", !.size = size,
                               !.pregenKey = getThumbCacheKeyTwitterStyle(
                                                item.sourceName, item.imageSubPath, size)]
    /\ UNCHANGED <<scanVars, now, thumbVars, rescanVars, pathVars, tierVars, passVars, pregenVars, inventoryVars, dataSourcesVars, gridVars, crawlVars, treeVars, coverVars, loaderVars, snapVars>>

\* the endpoint handles the request of the grid for the picture
KeyRequested(requestedWidth) ==
    /\ keys.pc = "pregenerated"
    /\ LET pathParts == ThumbUrl(keys.sourceName, keys.path)
           sourceName == pathParts[1]
           imageSubPath == pathParts[2]
           width == QuantizeWidth(requestedWidth)
       IN keys' = [keys EXCEPT !.pc = "requested", !.width = width,
                               !.known = decodeText(sourceName) = keys.sourceName,
                               !.requestKey = getThumbCacheKeyTwitterStyle(
                                                 sourceName, imageSubPath, width)]
    /\ UNCHANGED <<scanVars, now, thumbVars, rescanVars, pathVars, tierVars, passVars, pregenVars, inventoryVars, dataSourcesVars, gridVars, crawlVars, treeVars, coverVars, loaderVars, snapVars>>

\* the next picture
KeyDone ==
    /\ keys.pc = "requested"
    /\ keys' = NoKeys
    /\ UNCHANGED <<scanVars, now, thumbVars, rescanVars, pathVars, tierVars, passVars, pregenVars, inventoryVars, dataSourcesVars, gridVars, crawlVars, treeVars, coverVars, loaderVars, snapVars>>

KeysQuiet == keys = NoKeys

----------------------------------------------------------------------------
(* Browser: the folder tree of a local source, handleToggleFolder of
   DataSourceList.tsx and getFileEntries of the scan worker; a path is the
   sequence of its characters *)

\* the directories below the directory handle, as directoryHandle.values()
\* yields them: the directory they are in, and their name
TreeDirs ==
    << [parent |-> <<>>,                name |-> <<"a">>],
       [parent |-> <<>>,                name |-> <<"a", "b">>],
       [parent |-> <<"a">>,             name |-> <<"b">>],
       [parent |-> <<"a">>,             name |-> <<"b", "c">>],
       [parent |-> <<"a", "/", "b">>,   name |-> <<"c">>] >>

\* nextPath of getFileEntries
NextPath(currentPath, name) ==
    IF currentPath # <<>> THEN currentPath \o <<"/">> \o name ELSE name

\* FolderNode.path of the nodes the folder tree shows
FolderPaths == {NextPath(TreeDirs[i].parent, TreeDirs[i].name) : i \in 1..Len(TreeDirs)}

\* the image every directory holds
TreeFileName == <<"x", ".", "j", "p", "g">>

\* an exclusion test on the characters alone
isFolderExcludedByPrefix(path, disabledFolders) ==
    \E disabled \in disabledFolders : startsWith(path, disabled)

isFolderExcluded(path, disabledFolders) ==
    \E disabled \in disabledFolders :
        path = disabled \/ startsWith(path, disabled \o <<"/">>)

\* getFileEntries: the file of the directory, then its sub-directories from
\* the i-th on
RECURSIVE SubfolderEntries(_, _, _, _)
SubfolderEntries(includeSubfolders, disabledFolders, currentPath, i) ==
    IF i > Len(TreeDirs) THEN <<>>
    ELSE LET entry    == TreeDirs[i]
             nextPath == NextPath(currentPath, entry.name)
             below    ==
                IF entry.parent = currentPath /\ includeSubfolders
                   /\ ~isFolderExcluded(nextPath, disabledFolders)
                THEN << [relativePath |-> nextPath, name |-> TreeFileName] >>
                     \o SubfolderEntries(includeSubfolders, disabledFolders, nextPath, 1)
                ELSE <<>>
         IN  below \o SubfolderEntries(includeSubfolders, disabledFolders,
                                       currentPath, i + 1)

getFileEntriesOfTree(includeSubfolders, disabledFolders) ==
    << [relativePath |-> <<>>, name |-> TreeFileName] >>
    \o SubfolderEntries(includeSubfolders, disabledFolders, <<>>, 1)

\* relativeKeyPart of scanLocalSource
RelativeKeyPart(entry) ==
    IF entry.relativePath # <<>>
    THEN entry.relativePath \o <<"/">> \o entry.name ELSE entry.name

\* scanLocalSource of a source without pictures in the table: every entry is
\* seen and added
scanTree(source) ==
    LET fileEntries == getFileEntriesOfTree(source.includeSubfolders,
                                            source.disabledFolders)
    IN  [adds     |-> [i \in 1..Len(fileEntries) |->
                         [name |-> fileEntries[i].name,
                          relativePath |-> fileEntries[i].relativePath]],
         updates  |-> <<>>,
         seenKeys |-> {RelativeKeyPart(fileEntries[i]) : i \in 1..Len(fileEntries)}]

NoTreeResults == [adds |-> <<>>, updates |-> <<>>, seenKeys |-> {}]

\* source: the row of db.dataSources; scanned: the copy of it in the last
\* ScanCommand; results: what scanLocalSource returned for it
NoTree ==
    [source  |-> [includeSubfolders |-> FALSE, disabledFolders |-> {}],
     scanned |-> [includeSubfolders |-> FALSE, disabledFolders |-> {}],
     walked  |-> FALSE,
     results |-> NoTreeResults]

\* handleToggleFolder; the checkbox of a folder below an excluded one is
\* disabled
ToggleFolder(folderPath, include) ==
    /\ \A d \in tree.source.disabledFolders :
          ~(folderPath # d /\ startsWith(folderPath, d \o <<"/">>))
    /\ include = (folderPath \in tree.source.disabledFolders)
    /\ tree' = [tree EXCEPT !.source.disabledFolders =
                  IF include
                  THEN {entry \in @ : ~(entry = folderPath
                                        \/ startsWith(entry, folderPath \o <<"/">>))}
                  ELSE @ \cup {folderPath}]
    /\ UNCHANGED <<scanVars, now, thumbVars, rescanVars, pathVars, tierVars, passVars, pregenVars, inventoryVars, dataSourcesVars, gridVars, crawlVars, keysVars, coverVars, loaderVars, snapVars>>

\* handleToggleIncludeSubfolders
ToggleIncludeSubfolders ==
    /\ tree' = [tree EXCEPT !.source.includeSubfolders = ~@]
    /\ UNCHANGED <<scanVars, now, thumbVars, rescanVars, pathVars, tierVars, passVars, pregenVars, inventoryVars, dataSourcesVars, gridVars, crawlVars, keysVars, coverVars, loaderVars, snapVars>>

\* a scan of the source: the worker walks the tree with the settings of the
\* command
TreeScan ==
    /\ tree' = [tree EXCEPT !.scanned = tree.source, !.walked = TRUE,
                            !.results = scanTree(tree.source)]
    /\ UNCHANGED <<scanVars, now, thumbVars, rescanVars, pathVars, tierVars, passVars, pregenVars, inventoryVars, dataSourcesVars, gridVars, crawlVars, keysVars, coverVars, loaderVars, snapVars>>

TreeQuiet == tree = NoTree

----------------------------------------------------------------------------
(* Server: startServer, the rescans and the pregeneration driver of
   server.cjs, as far as the pregeneration queue is concerned *)

\* the images that may lie below the server source, in the order of a listing
CoverImages == <<"a.jpg", "b.jpg", "broken.jpg">>

\* server-cache.json: none, or the sources with the pictures of the last run
NoServerCache == [sources |-> FALSE, pictures |-> {}]
ServerCaches ==
    {NoServerCache, [sources |-> TRUE, pictures |-> {}],
     [sources |-> TRUE, pictures |-> {"a.jpg"}]}

\* initThumbnailPregenQueue: one item per picture of serverDataCache
QueueOf(known) == SelectSeq(CoverImages, LAMBDA image : image \in known)

\* the three tiers of an image
TiersOf(image) == {<<image, THUMBNAIL_SIZES_ARRAY[i]>> : i \in 1..Len(THUMBNAIL_SIZES_ARRAY)}

\* thumbnailPregenQueue.splice(0, PREGEN_BATCH_SIZE)
SpliceBatch(queue) ==
    SubSeq(queue, 1, IF Len(queue) < PREGEN_BATCH_SIZE THEN Len(queue)
                     ELSE PREGEN_BATCH_SIZE)

\* sources, pictures: serverDataCache; timer: startThumbnailPregenTimer has
\* been called; rescan: a debounced rescan is due; taken: the items the
\* batches have taken; cached: the tiers in thumb_cache
NoCover ==
    [pc |-> "boot", disk |-> {}, persisted |-> NoServerCache, sources |-> FALSE,
     pictures |-> {}, thumbnailPregenQueue |-> <<>>, timer |-> FALSE,
     rescan |-> FALSE, taken |-> {}, cached |-> {}]

\* startServer from loadServerCache on: the first scan is awaited when no
\* sources were loaded, else a rescan is triggered; the queue and its timer
\* are set up when there are pictures
CoverStart ==
    /\ cover.pc = "boot"
    /\ LET loaded   == cover.persisted
           known    == IF loaded.sources THEN loaded.pictures ELSE cover.disk
       IN  cover' = [cover EXCEPT
              !.pc = "up",
              !.sources = TRUE,
              !.pictures = known,
              !.persisted = [sources |-> TRUE, pictures |-> known],
              !.rescan = loaded.sources,
              !.thumbnailPregenQueue = IF known # {} THEN QueueOf(known) ELSE @,
              !.timer = (known # {})]
    /\ UNCHANGED <<scanVars, now, thumbVars, rescanVars, pathVars, tierVars, passVars, pregenVars, inventoryVars, dataSourcesVars, gridVars, crawlVars, keysVars, treeVars, loaderVars, snapVars>>

\* a file is added below the source, or removed; the watcher triggers a rescan
CoverDiskChange(image) ==
    /\ cover.pc = "up"
    /\ cover' = [cover EXCEPT
          !.disk = IF image \in @ THEN @ \ {image} ELSE @ \cup {image},
          !.rescan = TRUE]
    /\ UNCHANGED <<scanVars, now, thumbVars, rescanVars, pathVars, tierVars, passVars, pregenVars, inventoryVars, dataSourcesVars, gridVars, crawlVars, keysVars, treeVars, loaderVars, snapVars>>

\* the debounced rescan: scanServerFolders publishes what is on disk
CoverRescan ==
    /\ cover.pc = "up" /\ cover.rescan
    /\ cover' = [cover EXCEPT
          !.pictures = cover.disk,
          !.persisted = [sources |-> TRUE, pictures |-> cover.disk],
          !.rescan = FALSE]
    /\ UNCHANGED <<scanVars, now, thumbVars, rescanVars, pathVars, tierVars, passVars, pregenVars, inventoryVars, dataSourcesVars, gridVars, crawlVars, keysVars, treeVars, loaderVars, snapVars>>

\* a tick of the pregeneration timer at which the system is idle: one batch,
\* from the splice to the end; an item whose file cannot be read is skipped
CoverTick ==
    /\ cover.timer /\ Len(cover.thumbnailPregenQueue) > 0
    /\ LET batch == SpliceBatch(cover.thumbnailPregenQueue)
           made  == {image \in Range(batch) :
                        image \in cover.disk /\ image \notin UnreadableImages}
       IN  cover' = [cover EXCEPT
              !.thumbnailPregenQueue =
                  SubSeq(@, Len(batch) + 1, Len(@)),
              !.taken = @ \cup Range(batch),
              !.cached = @ \cup UNION {TiersOf(image) : image \in made}]
    /\ UNCHANGED <<scanVars, now, thumbVars, rescanVars, pathVars, tierVars, passVars, pregenVars, inventoryVars, dataSourcesVars, gridVars, crawlVars, keysVars, treeVars, loaderVars, snapVars>>

CoverQuiet == cover = NoCover

----------------------------------------------------------------------------
(* Browser: the grid loader while the filter changes under loads in flight *)

MaxFilterChanges == 2     \* changes of the filter in one behaviour

\* the selections the grid is rendered with: nothing selected, more local
\* pictures than server pictures, more server pictures than local ones
NothingSelected == [client |-> 0, server |-> 0, layout |-> "interleaved"]
FilterConfigs ==
    {NothingSelected,
     [client |-> 2, server |-> 1, layout |-> "clientNewer"],
     [client |-> 1, server |-> 2, layout |-> "serverNewer"]}

\* the component after its first render, with the reset effect still to run
NoLoader == [config |-> NothingSelected, observer |-> NothingSelected,
             effect |-> TRUE, filterVersion |-> 0, isBatchLoading |-> FALSE,
             hasMore |-> TRUE, clientOffset |-> 0, serverOffset |-> 0,
             items |-> <<>>, updates |-> <<>>, calls |-> <<>>,
             changes |-> 0, outcome |-> "none"]

\* the test of loadMoreItems after its await and of the updater of setItems
AlwaysCurrent(version) == FALSE
FilterChanged(version) == loader.filterVersion # version

\* the state updates of items queued by setItems, applied in their order
RECURSIVE ApplyUpdates(_, _)
ApplyUpdates(currentItems, updates) ==
    IF updates = <<>> THEN currentItems
    ELSE LET u == updates[1]
         IN ApplyUpdates(IF u.clear THEN <<>>
                         ELSE IF FilterChanged(u.version) THEN currentItems
                         ELSE AddToItems(currentItems, u.batch),
                         Tail(updates))

\* a render of the component: the queued updates of items, and the effect
\* that hands loadMoreItems to the observer when the number of items changed
Rendered(l) ==
    LET items == ApplyUpdates(l.items, l.updates)
    IN [l EXCEPT !.items = items, !.updates = <<>>,
                 !.observer = IF Len(items) # Len(l.items) THEN l.config ELSE @]

\* loadMoreItems of the render with the given selection, up to its await
Called(l, closure) ==
    [l EXCEPT !.isBatchLoading = TRUE,
              !.calls = Append(@, [version |-> l.filterVersion, closure |-> closure,
                                   limit |-> IF l.clientOffset = 0 /\ l.serverOffset = 0
                                             THEN BATCH_SIZE * INITIAL_LOAD_MULTIPLIER
                                             ELSE BATCH_SIZE,
                                   clientOffset |-> l.clientOffset,
                                   serverOffset |-> l.serverOffset])]

\* the component renders again for the updates of items that are queued
LoaderRender ==
    /\ loader.updates # <<>>
    /\ loader' = Rendered(loader)
    /\ UNCHANGED <<scanVars, now, thumbVars, rescanVars, pathVars, tierVars, passVars, pregenVars, inventoryVars, dataSourcesVars, gridVars, crawlVars, keysVars, treeVars, coverVars, snapVars>>

\* the selection or the search term changes: the component renders with the
\* new filter, and the reset effect is to run
FilterChange(config) ==
    /\ ~loader.effect
    /\ loader.changes < MaxFilterChanges
    /\ config # loader.config
    /\ loader' = Rendered([loader EXCEPT !.config = config, !.effect = TRUE,
                                         !.changes = @ + 1])
    /\ UNCHANGED <<scanVars, now, thumbVars, rescanVars, pathVars, tierVars, passVars, pregenVars, inventoryVars, dataSourcesVars, gridVars, crawlVars, keysVars, treeVars, coverVars, snapVars>>

\* the effect that resets the grid for a filter, with its call of
\* loadMoreItems
ResetEffect ==
    /\ loader.effect
    /\ LET reset == [loader EXCEPT !.effect = FALSE,
                                   !.filterVersion = @ + 1,
                                   !.isBatchLoading = FALSE,
                                   !.clientOffset = 0, !.serverOffset = 0,
                                   !.updates = Append(@, [clear |-> TRUE, version |-> 0,
                                                          batch |-> <<>>])]
       IN loader' = IF loader.config = NothingSelected
                    THEN [reset EXCEPT !.hasMore = FALSE]
                    ELSE Called([reset EXCEPT !.hasMore = TRUE], loader.config)
    /\ UNCHANGED <<scanVars, now, thumbVars, rescanVars, pathVars, tierVars, passVars, pregenVars, inventoryVars, dataSourcesVars, gridVars, crawlVars, keysVars, treeVars, coverVars, snapVars>>

\* the observer or the refill effect calls loadMoreItems: the observer with
\* the function of the render that created it
LoadMore(closure) ==
    /\ closure \in {loader.config, loader.observer}
    /\ ~loader.isBatchLoading /\ loader.hasMore
    /\ loader' = Called(loader, closure)
    /\ UNCHANGED <<scanVars, now, thumbVars, rescanVars, pathVars, tierVars, passVars, pregenVars, inventoryVars, dataSourcesVars, gridVars, crawlVars, keysVars, treeVars, coverVars, snapVars>>

\* loadMoreItems from the end of its await to its finally
Resumed(l, call, ok, throws) ==
    LET clientResult == loadClientPictures(call.closure, call.limit, call.clientOffset)
        serverResult == loadServerPictures(call.closure, call.limit, call.serverOffset, ok)
        allowedBatch == Deduplicate(SortByModified(clientResult.pictures \o
                                                   serverResult.pictures))
    IN IF throws
       THEN [l EXCEPT !.hasMore = FALSE, !.isBatchLoading = FALSE,
                      !.outcome = "failed"]
       ELSE IF FilterChanged(call.version)
       THEN [l EXCEPT !.isBatchLoading = FALSE, !.outcome = "discarded"]
       ELSE [l EXCEPT !.clientOffset = clientResult.newOffset,
                      !.serverOffset = serverResult.newOffset,
                      !.hasMore = clientResult.hasMore \/ serverResult.hasMore,
                      !.updates = IF allowedBatch = <<>> THEN @
                                  ELSE Append(@, [clear |-> FALSE,
                                                  version |-> call.version,
                                                  batch |-> allowedBatch]),
                      !.isBatchLoading = FALSE,
                      !.outcome = IF allowedBatch = <<>> THEN "empty" ELSE "queued"]

WithoutCall(calls, i) == SubSeq(calls, 1, i - 1) \o SubSeq(calls, i + 1, Len(calls))

LoadResolves(i, ok, throws) ==
    /\ i \in 1..Len(loader.calls)
    /\ loader' = [Resumed(loader, loader.calls[i], ok, throws)
                     EXCEPT !.calls = WithoutCall(@, i)]
    /\ UNCHANGED <<scanVars, now, thumbVars, rescanVars, pathVars, tierVars, passVars, pregenVars, inventoryVars, dataSourcesVars, gridVars, crawlVars, keysVars, treeVars, coverVars, snapVars>>

LoaderQuiet == loader = NoLoader

----------------------------------------------------------------------------
(* Server: persistServerCache and loadServerCache at the level of the files *)

MaxSnapshots == 3         \* snapshots written in one behaviour
MaxCrashes == 1           \* deaths of the process in one behaviour

\* the writes fs.promises.writeFile needs for one payload
PayloadChunks == 2

\* what a file holds where nothing was written after a truncation
Hole == <<0, 0>>

\* JSON.stringify(payload) of the k-th snapshot, in the pieces it is written in
Payload(k) == [c \in 1..PayloadChunks |-> <<k, c>>]

\* a file descriptor writes at its own position
WriteAt(content, pos, piece) ==
    IF pos <= Len(content) THEN [content EXCEPT ![pos] = piece]
    ELSE content \o [n \in 1..(pos - Len(content) - 1) |-> Hole] \o <<piece>>

\* JSON.parse of loadServerCache succeeds on the text of one whole payload
Parses(content) == \E k \in 1..MaxSnapshots : content = Payload(k)

\* the directory of server.cjs without server-cache.json and with the file an
\* earlier run left
NoSnap == [pc |-> "down", files |-> <<>>, cachePath |-> 0, tmpPath |-> 0,
           sources |-> FALSE, startScan |-> FALSE, writers |-> <<>>,
           snapshots |-> 0, crashes |-> 0]
EarlierSnap == [NoSnap EXCEPT !.files = <<Payload(1)>>, !.cachePath = 1, !.snapshots = 1]

\* startServer: loadServerCache, and whether the scan of startServer is to run
SnapStart ==
    /\ snap.pc = "down"
    /\ LET loaded == snap.cachePath # 0 /\ Parses(snap.files[snap.cachePath])
       IN snap' = [snap EXCEPT !.pc = "up", !.sources = loaded, !.startScan = ~loaded]
    /\ UNCHANGED <<scanVars, now, thumbVars, rescanVars, pathVars, tierVars, passVars, pregenVars, inventoryVars, dataSourcesVars, gridVars, crawlVars, keysVars, treeVars, coverVars, loaderVars>>

\* an execution of scanServerFolders reaches persistServerCache: the one
\* startServer awaits, or the one of the rescan timer, which runs under
\* isScanningServer
PersistBegins(origin) ==
    /\ snap.pc = "up"
    /\ snap.snapshots < MaxSnapshots
    /\ IF origin = "start" THEN snap.startScan
       ELSE \A i \in 1..Len(snap.writers) : snap.writers[i].origin # "timer"
    /\ snap' = [snap EXCEPT
          !.startScan = IF origin = "start" THEN FALSE ELSE @,
          !.sources = TRUE,
          !.snapshots = @ + 1,
          !.writers = Append(@, [origin |-> origin, payload |-> snap.snapshots + 1,
                                 pc |-> "open", fd |-> 0, pos |-> 1])]
    /\ UNCHANGED <<scanVars, now, thumbVars, rescanVars, pathVars, tierVars, passVars, pregenVars, inventoryVars, dataSourcesVars, gridVars, crawlVars, keysVars, treeVars, coverVars, loaderVars>>

\* writeFile(tmpPath) opens the file: a file of that name is truncated, else
\* one is created
TmpOpened(i) ==
    /\ i \in 1..Len(snap.writers)
    /\ snap.writers[i].pc = "open"
    /\ IF snap.tmpPath # 0
       THEN snap' = [snap EXCEPT !.files[snap.tmpPath] = <<>>,
                                 !.writers[i].fd = snap.tmpPath,
                                 !.writers[i].pc = "write"]
       ELSE snap' = [snap EXCEPT !.files = Append(@, <<>>),
                                 !.tmpPath = Len(snap.files) + 1,
                                 !.writers[i].fd = Len(snap.files) + 1,
                                 !.writers[i].pc = "write"]
    /\ UNCHANGED <<scanVars, now, thumbVars, rescanVars, pathVars, tierVars, passVars, pregenVars, inventoryVars, dataSourcesVars, gridVars, crawlVars, keysVars, treeVars, coverVars, loaderVars>>

\* writeFile writes the next piece of the payload, or fails and the catch
\* of persistServerCache is entered
TmpWritten(i, ok) ==
    /\ i \in 1..Len(snap.writers)
    /\ snap.writers[i].pc = "write"
    /\ LET w == snap.writers[i]
       IN IF ok
          THEN snap' = [snap EXCEPT
                  !.files[w.fd] = WriteAt(@, w.pos, Payload(w.payload)[w.pos]),
                  !.writers[i].pos = @ + 1,
                  !.writers[i].pc = IF w.pos = PayloadChunks THEN "rename" ELSE "write"]
          ELSE snap' = [snap EXCEPT !.writers[i].pc = "unlink"]
    /\ UNCHANGED <<scanVars, now, thumbVars, rescanVars, pathVars, tierVars, passVars, pregenVars, inventoryVars, dataSourcesVars, gridVars, crawlVars, keysVars, treeVars, coverVars, loaderVars>>

WithoutWriter(writers, i) ==
    SubSeq(writers, 1, i - 1) \o SubSeq(writers, i + 1, Len(writers))

\* rename(tmpPath, CACHE_FILE_PATH): the name server-cache.json gets the file
\* that has the name of the temporary file; without such a file it fails
\* and the catch is entered
TmpRenamed(i) ==
    /\ i \in 1..Len(snap.writers)
    /\ snap.writers[i].pc = "rename"
    /\ IF snap.tmpPath # 0
       THEN snap' = [snap EXCEPT !.cachePath = snap.tmpPath, !.tmpPath = 0,
                                 !.writers = WithoutWriter(@, i)]
       ELSE snap' = [snap EXCEPT !.writers[i].pc = "unlink"]
    /\ UNCHANGED <<scanVars, now, thumbVars, rescanVars, pathVars, tierVars, passVars, pregenVars, inventoryVars, dataSourcesVars, gridVars, crawlVars, keysVars, treeVars, coverVars, loaderVars>>

\* the catch of persistServerCache: unlink(tmpPath), a failure of it ignored
TmpUnlinked(i) ==
    /\ i \in 1..Len(snap.writers)
    /\ snap.writers[i].pc = "unlink"
    /\ snap' = [snap EXCEPT !.tmpPath = 0, !.writers = WithoutWriter(@, i)]
    /\ UNCHANGED <<scanVars, now, thumbVars, rescanVars, pathVars, tierVars, passVars, pregenVars, inventoryVars, dataSourcesVars, gridVars, crawlVars, keysVars, treeVars, coverVars, loaderVars>>

\* the process dies: the files stay as they are
SnapCrash ==
    /\ snap.pc = "up"
    /\ snap.crashes < MaxCrashes
    /\ snap' = [snap EXCEPT !.pc = "down", !.writers = <<>>, !.sources = FALSE,
                            !.startScan = FALSE, !.crashes = @ + 1]
    /\ UNCHANGED <<scanVars, now, thumbVars, rescanVars, pathVars, tierVars, passVars, pregenVars, inventoryVars, dataSourcesVars, gridVars, crawlVars, keysVars, treeVars, coverVars, loaderVars>>

SnapQuiet == snap = NoSnap

----------------------------------------------------------------------------

ScanQuiet ==
    /\ localFiles = [i \in 1..Len(FileSlots) |-> InitialFile]
    /\ localAccess = TRUE
    /\ pictures = {}
    /\ nextId = 1
    /\ pictureCount = [s \in SourceIds |-> 0]
    /\ isScanning = FALSE
    /\ scanProgress = 0
    /\ wpc = "idle"
    /\ cmd = NoCommand
    /\ widx = 1
    /\ allAdds = <<>> /\ allUpdates = <<>> /\ allDeletes = <<>>
    /\ outbox = <<>>
    /\ observed = [s \in SourceIds |-> NotWalked]
    /\ baseline = NoBase
    /\ pending = NoPending
    /\ scans = 0
    /\ applied = NothingApplied
    /\ now = 1

ServerQuiet == ThumbQuiet /\ RescanQuiet /\ PathQuiet /\ TierQuiet /\ PassQuiet /\ PregenQuiet /\ SnapQuiet /\ LoaderQuiet /\ CoverQuiet /\ TreeQuiet /\ KeysQuiet /\ CrawlQuiet /\ GridQuiet /\ InventoryQuiet /\ DataSourcesQuiet

ScanInit == ScanQuiet /\ ServerQuiet

ScanNext ==
    \/ \E sources \in SourceLists :
          \E scope \in Scopes(sources) : StartScan(sources, scope)
    \/ WalkLocal
    \/ WalkLocalThrows
    \/ \E failPage \in 0..Len(RemotePages) : WalkRemote(failPage)
    \/ WorkerFinish
    \/ OnProgress
    \/ OnComplete
    \/ OnError
    \/ TerminateWorker
    \/ \E i \in 1..Len(FileSlots) : \E st \in FileStates[i] : ChangeFile(i, st)
    \/ ChangeAccess
    \/ ScanTick

ScanSpec == ScanInit /\ [][ScanNext]_vars

\* the worker also takes a command that lists a source twice
RepeatedLists == {<<LocalSource, LocalSource>>, <<RemoteSource, RemoteSource>>}

CommandInit == ScanInit

CommandNext ==
    \/ ScanNext
    \/ \E sources \in RepeatedLists : StartScan(sources, IdsOf(sources))

CommandSpec == CommandInit /\ [][CommandNext]_vars

----------------------------------------------------------------------------

\* startServer has loaded the metadata file and enters the initial cleanup
ThumbInit ==
    /\ ScanQuiet
    /\ RescanQuiet /\ PathQuiet /\ TierQuiet /\ PassQuiet /\ PregenQuiet /\ SnapQuiet /\ LoaderQuiet /\ CoverQuiet /\ TreeQuiet /\ KeysQuiet /\ CrawlQuiet /\ GridQuiet /\ InventoryQuiet /\ DataSourcesQuiet
    /\ \E c \in LeftBehind :
          /\ cacheFiles = FilesLeft(c)
          /\ cacheMetadata = EntriesLeft(c)
          /\ metadataFile = EntriesLeft(c)
    /\ metadataPartial = FALSE
    /\ listening = FALSE
    /\ reqs = [r \in ReqIds |-> NoRequest]
    /\ sweeps = [o \in Owners |-> IF o = 0 THEN SweepStarted(ThumbStart) ELSE NoSweep]
    /\ srvNow = ThumbStart
    /\ restarts = 0
    /\ arrivals = 0

ThumbNext ==
    \/ \E o \in Owners : CleanupScan(o)
    \/ \E o \in Owners : CleanupBudget(o)
    \/ \E o \in Owners : CleanupBudgetSave(o)
    \/ \E o \in Owners : CleanupTtl(o)
    \/ \E o \in Owners : CleanupTtlSave(o)
    \/ Restart
    \/ RestartInSave
    \/ MaintenanceTimer
    \/ \E r \in ReqIds : \E image \in RequestImages :
          \E requestedWidth \in RequestWidths : ThumbArrive(r, image, requestedWidth)
    \/ \E r \in ReqIds : ThumbAccessCache(r)
    \/ \E r \in ReqIds : ThumbGenerate(r)
    \/ \E r \in ReqIds : \E status \in {400, 500} : ThumbUnreadable(r, status)
    \/ \E r \in ReqIds : ThumbSave(r)

ThumbSpec == ThumbInit /\ [][ThumbNext]_vars

----------------------------------------------------------------------------

\* startServer has loaded server-cache.json, or found none
RescanInit ==
    /\ ScanQuiet
    /\ ThumbQuiet /\ PathQuiet /\ TierQuiet /\ PassQuiet /\ PregenQuiet /\ SnapQuiet /\ LoaderQuiet /\ CoverQuiet /\ TreeQuiet /\ KeysQuiet /\ CrawlQuiet /\ GridQuiet /\ InventoryQuiet /\ DataSourcesQuiet
    /\ srvPc = "boot"
    /\ folder = 0
    /\ serverDataCache \in {NoServerData, [sources |-> WatchedSources, listed |-> 0]}
    /\ isScanningServer = FALSE
    /\ rescanTimer = 0
    /\ timers = {}
    /\ timerSeq = 0
    /\ running = <<>>
    /\ rsNow = 0
    /\ lastEvent = 0
    /\ bursts = 0
    /\ coalesced = 0
    /\ rescans = 0
    /\ lastStart = [at |-> 0, event |-> 0]

RescanNext ==
    \/ StartServer
    \/ WatcherEvent
    \/ TimerFires
    \/ \E i \in 1..Len(running) : ScanFinishes(i)
    \/ RescanTick

RescanSpec == RescanInit /\ [][RescanNext]_vars

\* the event loop runs every callback that is due, every scan returns, and
\* the clock goes on
RescanLiveNext == RescanNext \/ TimerElapses

RescanLiveSpec ==
    /\ RescanInit /\ [][RescanLiveNext]_vars
    /\ WF_vars(StartServer)
    /\ WF_vars(TimerFires)
    /\ WF_vars(\E i \in 1..Len(running) : ScanFinishes(i))
    /\ WF_vars(RescanTick)
    /\ WF_vars(TimerElapses)

----------------------------------------------------------------------------

PathInit == ScanQuiet /\ ThumbQuiet /\ RescanQuiet /\ PathQuiet /\ TierQuiet /\ PassQuiet /\ PregenQuiet /\ SnapQuiet /\ LoaderQuiet /\ CoverQuiet /\ TreeQuiet /\ KeysQuiet /\ CrawlQuiet /\ GridQuiet /\ InventoryQuiet /\ DataSourcesQuiet

PathNext ==
    \/ \E endpoint \in {"thumb", "original"} :
          \E reqPath \in RequestPaths : PathRequest(endpoint, reqPath)
    \/ ServeThumb
    \/ ServeOriginal

PathSpec == PathInit /\ [][PathNext]_vars

----------------------------------------------------------------------------

TierInit == ScanQuiet /\ ThumbQuiet /\ RescanQuiet /\ PathQuiet /\ TierQuiet /\ PassQuiet /\ PregenQuiet /\ SnapQuiet /\ LoaderQuiet /\ CoverQuiet /\ TreeQuiet /\ KeysQuiet /\ CrawlQuiet /\ GridQuiet /\ InventoryQuiet /\ DataSourcesQuiet

TierNext ==
    \/ \E containerWidth \in ContainerWidths :
          \E dpr \in PixelRatios : GridRequests(containerWidth, dpr)
    \/ \E query \in QueryWidths : OtherRequests(query)
    \/ TierOfRequest

TierSpec == TierInit /\ [][TierNext]_vars

PassInit == ScanQuiet /\ ThumbQuiet /\ RescanQuiet /\ PathQuiet /\ TierQuiet /\ PassQuiet /\ PregenQuiet /\ SnapQuiet /\ LoaderQuiet /\ CoverQuiet /\ TreeQuiet /\ KeysQuiet /\ CrawlQuiet /\ GridQuiet /\ InventoryQuiet /\ DataSourcesQuiet

PassNext ==
    \/ \E sources \in SourceOrders : \E files \in FileCounts :
          \E pages \in PageCounts : PassStart(sources, files, pages)
    \/ PassWalkLocal
    \/ PassWalkRemote
    \/ PassFinish

PassSpec == PassInit /\ [][PassNext]_vars

PregenInit ==
    /\ ScanQuiet
    /\ RescanQuiet /\ PathQuiet /\ TierQuiet /\ PassQuiet /\ PregenQuiet /\ SnapQuiet /\ LoaderQuiet /\ CoverQuiet /\ TreeQuiet /\ KeysQuiet /\ CrawlQuiet /\ GridQuiet /\ InventoryQuiet /\ DataSourcesQuiet
    /\ \E c \in LeftBehind :
          /\ cacheFiles = FilesLeft(c)
          /\ cacheMetadata = EntriesLeft(c)
          /\ metadataFile = EntriesLeft(c)
    /\ metadataPartial = FALSE
    /\ listening = FALSE
    /\ reqs = [r \in ReqIds |-> NoRequest]
    /\ sweeps = [o \in Owners |-> NoSweep]
    /\ srvNow = ThumbStart
    /\ restarts = 0
    /\ arrivals = 0

PregenNext ==
    \/ EvictBegin
    \/ EvictUnlink
    \/ EvictUnlinked
    \/ EvictSave
    \/ PregenTimer
    \/ PregenAccess
    \/ PregenGenerate
    \/ PregenRecord
    \/ PregenSave
    \/ PregenIdle
    \/ PregenRestart

PregenSpec == PregenInit /\ [][PregenNext]_vars

\* the sweeps come back (start-up, the maintenance timer), and each of them
\* runs to its end
PregenLiveSpec ==
    /\ PregenInit /\ [][PregenNext]_vars
    /\ WF_vars(EvictBegin) /\ WF_vars(EvictUnlink)
    /\ WF_vars(EvictUnlinked) /\ WF_vars(EvictSave)

InventoryInit ==
    /\ ScanQuiet /\ ThumbQuiet
    /\ RescanQuiet /\ PathQuiet /\ TierQuiet /\ PassQuiet /\ PregenQuiet /\ SnapQuiet /\ LoaderQuiet /\ CoverQuiet /\ TreeQuiet /\ KeysQuiet /\ CrawlQuiet /\ GridQuiet /\ DataSourcesQuiet
    /\ inventory = [NoInventory EXCEPT !.pc = "boot"]

InventoryNext ==
    \/ InventoryBoot
    \/ DiskChange
    \/ InventoryTimer
    \/ \E i \in 1..MaxInventoryScans : InventoryDiscovered(i)
    \/ \E i \in 1..MaxInventoryScans : InventoryListed(i)
    \/ \E i \in 1..MaxInventoryScans : InventoryThrows(i)
    \/ \E i \in 1..MaxInventoryScans : InventoryMetadata(i)
    \/ \E i \in 1..MaxInventoryScans : \E written \in BOOLEAN : InventoryPersisted(i, written)
    \/ ServerData
    \/ \E sourceId \in {SERVER_SOURCE_ID_OFFSET, SERVER_SOURCE_ID_OFFSET + 1} :
          ServerPictures(sourceId)
    \/ InventoryRestart

InventorySpec == InventoryInit /\ [][InventoryNext]_vars

DeleteInit == ScanInit

DeleteNext ==
    \/ ScanNext
    \/ \E id \in SourceIds : ConfirmDelete(id)

DeleteSpec == DeleteInit /\ [][DeleteNext]_vars

GridInit == ScanInit

GridNext ==
    \/ \E client \in ClientCounts : \E server \in ServerCounts : \E layout \in Layouts :
          GridReset([client |-> client, server |-> server, layout |-> layout])
    \/ LoadMoreItems
    \/ ClientPicturesLoaded
    \/ \E ok \in BOOLEAN : ServerPicturesLoaded(ok)
    \/ BatchLoaded

GridSpec == GridInit /\ [][GridNext]_vars

CrawlInit == ScanInit

CrawlNext ==
    \/ \E maxImages \in MaxImagesValues : \E pages \in PageLists :
          \E failPage \in 0..(Len(pages) + 1) : Crawl(maxImages, pages, failPage)
    \/ CrawlReturns

CrawlSpec == CrawlInit /\ [][CrawlNext]_vars

KeysInit == ScanInit

KeysNext ==
    \/ \E sourceName \in SourceNames : \E file \in FileNames : KeyScanned(sourceName, file)
    \/ \E size \in {THUMBNAIL_SIZES_ARRAY[i] : i \in 1..Len(THUMBNAIL_SIZES_ARRAY)} :
          KeyPregenerated(size)
    \/ \E requestedWidth \in {300, 400, 800, 1600} : KeyRequested(requestedWidth)
    \/ KeyDone

KeysSpec == KeysInit /\ [][KeysNext]_vars

TreeInit == ScanInit

TreeNext ==
    \/ \E folderPath \in FolderPaths : \E include \in BOOLEAN :
          ToggleFolder(folderPath, include)
    \/ ToggleIncludeSubfolders
    \/ TreeScan

TreeSpec == TreeInit /\ [][TreeNext]_vars

CoverInit ==
    /\ ScanQuiet
    /\ ThumbQuiet /\ RescanQuiet /\ PathQuiet /\ TierQuiet /\ PassQuiet /\ PregenQuiet /\ SnapQuiet /\ LoaderQuiet /\ TreeQuiet /\ KeysQuiet /\ CrawlQuiet /\ GridQuiet /\ InventoryQuiet /\ DataSourcesQuiet
    /\ \E disk \in SUBSET Range(CoverImages) : \E persisted \in ServerCaches :
          cover = [NoCover EXCEPT !.disk = disk, !.persisted = persisted]

CoverNext ==
    \/ CoverStart
    \/ \E image \in Range(CoverImages) : CoverDiskChange(image)
    \/ CoverRescan
    \/ CoverTick

\* startServer runs, a rescan that is due starts, and the driver ticks
CoverSpec ==
    /\ CoverInit /\ [][CoverNext]_vars
    /\ WF_vars(CoverStart) /\ WF_vars(CoverRescan) /\ WF_vars(CoverTick)

LoaderInit ==
    /\ ScanQuiet
    /\ ThumbQuiet /\ RescanQuiet /\ PathQuiet /\ TierQuiet /\ PassQuiet /\ PregenQuiet /\ SnapQuiet /\ CoverQuiet /\ TreeQuiet /\ KeysQuiet /\ CrawlQuiet /\ GridQuiet /\ InventoryQuiet /\ DataSourcesQuiet
    /\ \E config \in FilterConfigs : loader = [NoLoader EXCEPT !.config = config, !.observer = config]

LoaderNext ==
    \/ LoaderRender
    \/ \E config \in FilterConfigs : FilterChange(config)
    \/ ResetEffect
    \/ \E closure \in FilterConfigs : LoadMore(closure)
    \/ \E i \in 1..Len(loader.calls) : \E ok, throws \in BOOLEAN : LoadResolves(i, ok, throws)

LoaderSpec == LoaderInit /\ [][LoaderNext]_vars

SnapInit ==
    /\ ScanQuiet
    /\ ThumbQuiet /\ RescanQuiet /\ PathQuiet /\ TierQuiet /\ PassQuiet /\ PregenQuiet /\ LoaderQuiet /\ CoverQuiet /\ TreeQuiet /\ KeysQuiet /\ CrawlQuiet /\ GridQuiet /\ InventoryQuiet /\ DataSourcesQuiet
    /\ snap \in {NoSnap, EarlierSnap}

SnapNext ==
    \/ SnapStart
    \/ \E origin \in {"start", "timer"} : PersistBegins(origin)
    \/ \E i \in 1..Len(snap.writers) : TmpOpened(i)
    \/ \E i \in 1..Len(snap.writers) : \E ok \in BOOLEAN : TmpWritten(i, ok)
    \/ \E i \in 1..Len(snap.writers) : TmpRenamed(i)
    \/ \E i \in 1..Len(snap.writers) : TmpUnlinked(i)
    \/ SnapCrash

SnapSpec == SnapInit /\ [][SnapNext]_vars

----------------------------------------------------------------------------
(* Claims about the reconciliation engine *)

\* the stable identifier of a record: the URL of a remote picture, the path
\* below the directory handle of a local one
Identity(p) == IF p.path # <<>> THEN p.path ELSE p.relativePath

AllWalked == wpc = "walking" /\ widx > Len(cmd.sources)

WalkedSources == {cmd.sources[i] : i \in 1..(widx - 1)}

ExistingOf(sourceId) == {p \in cmd.existingPictures : p.sourceId = sourceId}

Unobserved(sourceId) ==
    {p \in ExistingOf(sourceId) :
        \A o \in observed[sourceId].items : o.keyPart # Identity(p)}

CompleteMessages == {outbox[i] : i \in {j \in 1..Len(outbox) : outbox[j].type = "complete"}}

\* C1 - Scope isolation: every id the worker collects for deletion, and every
\* id in the deletes of a posted changeset, is the id of an existing picture
\* whose sourceId is in the sourceIdsToScan of the command, also when
\* out-of-scope sources are walked and have records in the snapshot.
C1_ScopeIsolation ==
    /\ \A i \in 1..Len(allDeletes) :
          \E p \in cmd.existingPictures :
             p.id = allDeletes[i] /\ p.sourceId \in cmd.sourceIdsToScan
    /\ \A m \in CompleteMessages : \A i \in 1..Len(m.deletes) :
          \E p \in pictures : p.id = m.deletes[i] /\ p.sourceId \in pending.scope

\* a walked source that is out of scope has a record the walk did not see,
\* while a record of an in-scope source is collected for deletion
C1_Witness ==
    /\ AllWalked
    /\ allDeletes # <<>>
    /\ \E s \in WalkedSources :
          s.id \notin cmd.sourceIdsToScan /\ Unobserved(s.id) # {}

\* C3 - Idempotence: a scan whose command repeats the one of the changeset
\* applied last, with no change of the sources since that one started and no
\* failed walk, posts a changeset with empty adds, updates and deletes.
C3_Idempotence ==
    \A m \in CompleteMessages :
       pending.repeat /\ pending.sources # <<>> =>
          m.adds = <<>> /\ m.updates = <<>> /\ m.deletes = <<>>

\* C4 - Diff classification: when every source of the command is walked, for
\* each in-scope source an observed item without an existing record of its
\* identity is in adds, one whose record has another (modified, size) is in
\* updates under the record's id, one with the same fingerprint is in neither
\* and is not deleted, and the id of an existing record is in deletes exactly
\* when its identity was not observed.
C4_DiffClassification ==
    AllWalked =>
      \A s \in {x \in WalkedSources : x.id \in cmd.sourceIdsToScan} :
        /\ \A o \in observed[s.id].items :
             LET ex  == {p \in ExistingOf(s.id) : Identity(p) = o.keyPart}
                 ads == {i \in 1..Len(allAdds) :
                           /\ allAdds[i].sourceId = s.id
                           /\ Identity(allAdds[i]) = o.keyPart}
                 ups == {i \in 1..Len(allUpdates) :
                           /\ allUpdates[i].sourceId = s.id
                           /\ Identity(allUpdates[i]) = o.keyPart}
             IN /\ ex = {} =>
                     /\ ups = {}
                     /\ \E i \in ads : /\ allAdds[i].modified = o.modified
                                       /\ allAdds[i].size = o.size
                /\ \A p \in ex :
                     IF p.modified = o.modified /\ p.size = o.size
                     THEN ads = {} /\ ups = {} /\ p.id \notin Range(allDeletes)
                     ELSE /\ ads = {}
                          /\ \E i \in ups : /\ allUpdates[i].id = p.id
                                            /\ allUpdates[i].modified = o.modified
                                            /\ allUpdates[i].size = o.size
        /\ \A p \in ExistingOf(s.id) :
             p.id \in Range(allDeletes) <=> p \in Unobserved(s.id)

\* the example: A.jpg unchanged, B.jpg grown from 100 to 150 bytes, C.jpg gone
C4_Witness ==
    /\ AllWalked
    /\ cmd.sources = <<LocalSource>> /\ cmd.sourceIdsToScan = {LocalSource.id}
    /\ \E a, b, c \in cmd.existingPictures :
          /\ a.name = "A.jpg" /\ b.name = "B.jpg" /\ c.name = "C.jpg"
          /\ a.size = 100 /\ b.size = 100
          /\ localFiles[1] = File(a.modified, 100)
          /\ localFiles[2] = File(b.modified, 150)
          /\ localFiles[3] = Absent
          /\ allAdds = <<>>
          /\ Len(allUpdates) = 1
          /\ allUpdates[1].id = b.id /\ allUpdates[1].size = 150
          /\ allDeletes = <<c.id>>

----------------------------------------------------------------------------
(* Claims about the thumbnail cache *)

\* the handler of request r is between its cache miss and the end of its write
Generating(r) == reqs[r].pc = "generate"

\* C2 - Single-flight generation: at no time are two generations of the same
\* cache key in flight, however many requests for the uncached key overlap.
C2_SingleFlight ==
    \A r1, r2 \in ReqIds :
        (r1 # r2 /\ Generating(r1) /\ Generating(r2))
            => reqs[r1].cacheKey # reqs[r2].cacheKey

\* the call of cleanupCacheIfNeeded awaited by o returns in this step
SweepCompletes(o) ==
    /\ sweeps[o].pc \in {"ttl", "ttlSave"}
    /\ sweeps'[o].pc = "off"
    /\ restarts' = restarts

\* the bytes of all files below THUMB_CACHE_DIR, the shards included
CacheBytes(files) == SumStats(files, DOMAIN files)

\* C5 - Eviction budget: when cleanupCacheIfNeeded completes and no entry was
\* added during the sweep, the files below thumb_cache, those in the shard
\* directories included, hold at most MAX_CACHE_SIZE_BYTES bytes.
C5_EvictionBudget ==
    [][\A o \in Owners :
          (SweepCompletes(o) /\ ~sweeps[o].added)
              => CacheBytes(cacheFiles') <= MAX_CACHE_SIZE_BYTES]_vars

\* C6 - TTL eviction: when a sweep completes, the metadata store holds no entry
\* whose modifiedAt is more than CACHE_TTL_MS before the start of that sweep,
\* whatever the total size of the cache.
C6_TtlEviction ==
    [][\A o \in Owners :
          SweepCompletes(o)
              => \A i \in 1..Len(cacheMetadata') :
                    ~(sweeps[o].startedAt - cacheMetadata'[i].modifiedAt > CACHE_TTL_MS)]_vars

----------------------------------------------------------------------------
(* Claims about the watcher and the rescans *)

\* C7 - At most one server-side rescan in flight: across server startup,
\* watcher events and timer expiry, two executions of scanServerFolders never
\* overlap.
C7_OneRescanInFlight == Len(running) <= 1

\* C8 - Debounce: while no rescan is in progress every trigger replaces the
\* pending timer by one that is due RESCAN_DEBOUNCE_DELAY after it, so at most
\* one timer is pending, every burst of triggers has either its timer pending
\* or has started exactly one rescan, and a rescan started by the timer starts
\* no earlier than RESCAN_DEBOUNCE_DELAY after the last trigger before it.
C8_Debounce ==
    /\ Cardinality(timers) <= 1
    /\ \A t \in timers : t.id = rescanTimer /\ t.due = lastEvent + RESCAN_DEBOUNCE_DELAY
    /\ rescans + Cardinality(timers) = bursts
    /\ rescans > 0 => lastStart.at - lastStart.event >= RESCAN_DEBOUNCE_DELAY

\* a burst of three events has started one rescan
C8_Witness ==
    /\ rescans = 1 /\ bursts = 1 /\ coalesced >= 2
    /\ timers = {}
    /\ lastStart.event > 0

----------------------------------------------------------------------------
(* Claims about the image endpoints *)

\* the location a request resolves to, for a request that names a configured
\* source and a sub-path
NamesSource(reqPath) ==
    /\ Len(PathParts(reqPath)) >= 2
    /\ decodeURIComponent(PathParts(reqPath)[1]) \in DOMAIN serverSourceConfig

RootOf(reqPath) == serverSourceConfig[decodeURIComponent(PathParts(reqPath)[1])]

Location(reqPath) ==
    pathJoin(RootOf(reqPath), decodeURIComponent(JoinParts(Tail(PathParts(reqPath)))))

\* p is the directory root or lies below it
Inside(p, root) ==
    LET ps == PathParts(p)
        rs == PathParts(root)
    IN  Len(rs) <= Len(ps) /\ SubSeq(ps, 1, Len(rs)) = rs

\* C9 - Path-traversal rejection: on both endpoints a request that resolves to
\* a location outside the source root, a sibling directory whose name begins
\* with the root's name included, is answered with 403 and touches no file.
C9_PathTraversalRejected ==
    (pathReq.pc = "done" /\ NamesSource(pathReq.path)
        /\ ~Inside(Location(pathReq.path), RootOf(pathReq.path)))
        => (pathRes.status = 403 /\ pathRes.touched = {})

\* the tiers as a set, and the smallest of them that is wide enough
Tiers == {THUMBNAIL_SIZES_ARRAY[i] : i \in 1..Len(THUMBNAIL_SIZES_ARRAY)}

SmallestTierFor(w) ==
    LET wide == {t \in Tiers : t >= w}
    IN  IF wide = {} THEN CHOOSE t \in Tiers : \A u \in Tiers : u <= t
        ELSE CHOOSE t \in wide : \A u \in wide : t <= u

\* C10 - Tier quantization: for every accepted width the server selects the
\* smallest tier that is at least the width, and the largest tier beyond all
\* of them; the tier the grid asks for is the tier of the required width
\* round(containerWidth * max(1, dpr)); container width 500 at device pixel
\* ratio 2 resolves to the cache key of the 1600 tier.
C10_TierQuantization ==
    (tier.pc = "done" /\ tier.status = 200) =>
        LET w == ParseWidth(tier.query).value
            required == RequiredWidth(tier.containerWidth, tier.dpr)
        IN  /\ tier.width = SmallestTierFor(w)
            /\ (w <= 400 => tier.width = 400)
            /\ (400 < w /\ w <= 800 => tier.width = 800)
            /\ (800 < w => tier.width = 1600)
            /\ tier.containerWidth > 0 =>
                  /\ tier.width = tier.query.value
                  /\ tier.width = SmallestTierFor(required)
                  /\ (tier.containerWidth = 500 /\ tier.dpr = [num |-> 2, den |-> 1])
                        => tier.cacheKey = << <<"a3">>, <<"Album", "a.jpg", "large">> >>

\* the grid at container width 500 and device pixel ratio 2 got its answer
C10_Witness ==
    /\ tier.pc = "done" /\ tier.status = 200
    /\ tier.containerWidth = 500 /\ tier.dpr = [num |-> 2, den |-> 1]
    /\ tier.width = 1600

----------------------------------------------------------------------------
(* Claims C11 to C20 *)

RecordsOf(sourceId, keyPart) ==
    {p \in cmd.existingPictures : p.sourceId = sourceId /\ Identity(p) = keyPart}

\* the files the walk of the local source met whose existing record has the
\* file's timestamp and byte size
UnchangedFiles ==
    {o \in observed[LocalSource.id].items :
        \E p \in RecordsOf(LocalSource.id, o.keyPart) :
            p.modified = o.modified /\ p.size = o.size}

\* C12 - Fingerprint short-circuit: a file of the local source whose existing
\* record has the same modified timestamp and the same byte size is not given
\* to the dimension decoder or the EXIF parser, and is in neither adds nor
\* updates.
C12_FingerprintShortCircuit ==
    (wpc = "walking" /\ observed[LocalSource.id].walked) =>
        \A o \in UnchangedFiles :
            /\ <<LocalSource.id, o.keyPart>> \notin observed[LocalSource.id].decoded
            /\ \A i \in 1..Len(allAdds) :
                  ~(allAdds[i].sourceId = LocalSource.id
                    /\ allAdds[i].relativePath = o.keyPart)
            /\ \A i \in 1..Len(allUpdates) :
                  ~(allUpdates[i].sourceId = LocalSource.id
                    /\ allUpdates[i].relativePath = o.keyPart)

\* a walk met an unchanged file next to one it had to decode
C12_Witness ==
    /\ wpc = "walking" /\ observed[LocalSource.id].walked
    /\ UnchangedFiles # {}
    /\ observed[LocalSource.id].decoded # {}
    /\ Len(allUpdates) > 0

\* C13 - Atomic metadata persistence: at every point at which the process can
\* be stopped, .cache_metadata.json holds a complete metadata text, the one
\* before the persist or the one after it.
C13_AtomicPersistence == ~metadataPartial

\* the table the records of a changeset make of the table before it: the
\* deleted ids are gone, every update is in the place of the record with its
\* id, and every add is in with the next free id
TableAfter(table, m, id) ==
    {p \in table : /\ p.id \notin Range(m.deletes)
                   /\ \A i \in 1..Len(m.updates) : m.updates[i].id # p.id}
        \cup Range(m.updates)
        \cup {WithId(m.adds[i], id + i - 1) : i \in 1..Len(m.adds)}

\* C14 - No partial writes: the picture table changes only in the step that
\* handles a 'complete' message, and that one step takes it to the table with
\* all the deletes, updates and adds of the message (the App takes the message
\* and keeps the progress it shows); a step that handles a 'progress' or an
\* 'error' message, or that terminates the worker, leaves the table as it is.
C14_NoPartialWrites ==
    [][ /\ pictures' # pictures =>
              (outbox # <<>> /\ Head(outbox).type = "complete")
        /\ (/\ outbox # <<>> /\ Head(outbox).type = "complete"
            /\ outbox' = Tail(outbox)
            /\ scanProgress' = scanProgress)
              => pictures' = TableAfter(pictures, Head(outbox), nextId) ]_vars

\* the App has written a changeset with a delete, an update and an add
C14_Witness ==
    /\ applied.deletes > 0 /\ applied.updates > 0 /\ applied.adds > 0
    /\ pictures # {}
    /\ ~isScanning /\ wpc = "idle" /\ outbox = <<>>

\* the worker's handler returns in this step, with a last message of its own
PassEnds ==
    /\ wpc = "walking" /\ wpc' = "idle"
    /\ Len(outbox') > Len(outbox)

\* C15 - Per-source failure isolation: a pass in which the walk of a source
\* fails (a remote request error, a local directory handle that throws on
\* enumeration) still walks every source of the command and ends with a
\* 'complete' message.
C15_FailureIsolation ==
    [][ PassEnds =>
          /\ outbox'[Len(outbox')].type = "complete"
          /\ \A i \in 1..Len(cmd.sources) : observed[cmd.sources[i].id].walked ]_vars

\* the worker is at a local source whose directory handle has lost its
\* permission, and takes its step
WalksRevoked ==
    /\ wpc = "walking" /\ widx <= Len(cmd.sources)
    /\ cmd.sources[widx].type = "local"
    /\ ~localAccess
    /\ isScanning' = isScanning
    /\ <<wpc, widx>>' # <<wpc, widx>>

\* C16 - PermissionDenied keeps records: the pass over a local source whose
\* handle is revoked posts an 'error' message and ends; neither this pass nor
\* the handling of the error removes a record (no 'complete' message is among
\* the messages of a running pass, and the error leaves the table as it is).
C16_PermissionDeniedKeepsRecords ==
    /\ [](wpc = "walking" =>
            \A i \in 1..Len(outbox) : outbox[i].type # "complete")
    /\ [][ WalksRevoked =>
             /\ wpc' = "idle"
             /\ outbox' = Append(outbox, outbox'[Len(outbox')])
             /\ outbox'[Len(outbox')].type = "error" ]_vars
    /\ [][ (outbox # <<>> /\ Head(outbox).type = "error") =>
             pictures' = pictures ]_vars

\* the App has handled the error of a scan of the revoked local source and
\* the table still holds the records of that source
C16_Witness ==
    /\ ~localAccess
    /\ ~isScanning /\ wpc = "idle" /\ outbox = <<>>
    /\ LocalSource.id \in pending.scope /\ pending.sources = <<>>
    /\ \E p \in pictures : p.sourceId = LocalSource.id

\* C17 - Monotone progress: the progress values one scan command posts are
\* between 0 and 100 and never go down, whatever the number of sources, files
\* and pages.
C17_MonotoneProgress ==
    /\ \A i \in 1..Len(pass.posted) : 0 <= pass.posted[i] /\ pass.posted[i] <= 100
    /\ \A i, j \in 1..Len(pass.posted) : i < j => pass.posted[i] <= pass.posted[j]

\* the handler of request r finds its cache file and answers from the cache
CacheHit(r) ==
    /\ reqs[r].pc = "accessCache"
    /\ reqs[r].cacheKey \in DOMAIN cacheFiles
    /\ reqs'[r].pc = "idle" /\ reqs'[r].status = 200

\* C18 - Cache hit accounting: a hit leaves the key with a metadata entry whose
\* access count is one more than before (one for a cache file that had no
\* entry in the in-memory metadata) and whose last-accessed time is the
\* current time.
C18_HitAccounting ==
    [][ \A r \in ReqIds :
          CacheHit(r) =>
            LET i == EntryIndex(cacheMetadata, reqs[r].cacheKey)
                j == EntryIndex(cacheMetadata', reqs[r].cacheKey)
            IN  /\ j # 0
                /\ cacheMetadata'[j].modifiedAt = srvNow
                /\ cacheMetadata'[j].accessCount =
                      (IF i = 0 THEN 0 ELSE cacheMetadata[i].accessCount) + 1 ]_vars

\* the entries of the metadata store for a cache key
EntriesFor(entries, key) == {i \in 1..Len(entries) : entries[i].filename = key}

\* the handler of request r writes its thumbnail and records it
Generates(r) == reqs[r].pc = "generate" /\ reqs'[r].pc = "save"

\* a request is answered with an error status: on arrival, for a source file
\* that is missing, or by the handler of r, for an image it cannot read
FailsOnArrival ==
    /\ arrivals' # arrivals
    /\ \A r \in ReqIds : reqs[r].pc = "idle" => reqs'[r].pc = "idle"
FailsInHandler(r) ==
    /\ reqs[r].pc = "generate"
    /\ reqs'[r].pc = "idle" /\ reqs'[r].status \in {400, 404, 500}

\* C19 - Generation outcome: the step of a handler that generates leaves exactly
\* one metadata entry for its cache key, which is the key of its cache file,
\* and the handler answers 200 unless the server is stopped; a request for a
\* missing source file or an unreadable image is answered with an error status
\* and its step changes neither the cache directory nor the metadata store nor
\* the metadata file.
C19_GenerationOutcome ==
    [][ /\ \A r \in ReqIds :
              /\ Generates(r) =>
                    /\ Cardinality(EntriesFor(cacheMetadata', reqs[r].cacheKey)) = 1
                    /\ reqs[r].cacheKey \in DOMAIN cacheFiles'
              /\ (reqs[r].pc \in {"save", "cleanup"} /\ reqs'[r].pc = "idle"
                    /\ restarts' = restarts) => reqs'[r].status = 200
              /\ FailsInHandler(r) =>
                    UNCHANGED <<cacheFiles, cacheMetadata, metadataFile,
                                metadataPartial>>
        /\ FailsOnArrival =>
              /\ \E r \in ReqIds : reqs'[r].status = 404
              /\ UNCHANGED <<cacheFiles, cacheMetadata, metadataFile,
                             metadataPartial>> ]_vars

\* one handler has answered an unreadable image with an error status while the
\* other has generated the thumbnail of its key and holds its one entry
C19_Witness ==
    /\ reqs[1].pc = "idle" /\ reqs[1].status \in {400, 500}
    /\ reqs[2].pc = "save"
    /\ Cardinality(EntriesFor(cacheMetadata, reqs[2].cacheKey)) = 1
    /\ reqs[2].cacheKey \in DOMAIN cacheFiles

\* C20 - Eviction/pregeneration mutual exclusion: no sweep is between its
\* unlink of a cache file and the removal of the metadata entry of that key
\* while a pregeneration batch is between the writeFile of the same key and
\* its recordCacheEntry.
C20_EvictionPregenExclusion ==
    ~(/\ pregen.spc = "unlinking" /\ pregen.unlinked
      /\ pregen.ppc = "record"
      /\ pregen.expired[pregen.at] = PregenKey(pregen))

----------------------------------------------------------------------------
(* Claims C21 to C30 *)

\* C21 - a file that a source walker found but whose dimensions or metadata
\* it could not decode is still in the inventory the walker produces, with
\* the dimension fields absent or defaulted: for the walker of the server,
\* every file whose sharp metadata failed during the published scan has a
\* picture of its source in serverDataCache.pictures
C21_DecodeFailureStillRecorded ==
    \A u \in inventory.undecoded :
        \E i \in 1..Len(inventory.pictures) :
            /\ inventory.pictures[i].sourceId = u[1]
            /\ inventory.pictures[i].name = u[2]

\* the three parts of the inventory the routes read
Inventory(inv) ==
    [sources |-> inv.sources, pictures |-> inv.pictures,
     sourceConfig |-> inv.sourceConfig]

\* the parts of an inventory fit together
Consistent(snapshot) ==
    /\ \A i \in 1..Len(snapshot.pictures) :
          \E j \in 1..Len(snapshot.sources) :
              snapshot.sources[j].id = snapshot.pictures[i].sourceId
    /\ \A j \in 1..Len(snapshot.sources) :
          snapshot.sources[j].pictureCount =
              Cardinality({i \in 1..Len(snapshot.pictures) :
                              snapshot.pictures[i].sourceId = snapshot.sources[j].id})
    /\ snapshot.sourceConfig =
          {<<snapshot.sources[j].name, SourcePath(snapshot.sources[j].name)>> :
              j \in 1..Len(snapshot.sources)}

\* C26 - whenever the server answers requests, the sources, the pictures and
\* the source configuration fit together: every picture belongs to a listed
\* source, every pictureCount is the number of pictures of its source, and
\* the configuration names exactly the listed sources; the three change only
\* together, to what one scan collected or to what was loaded from the
\* persisted file, and a scan that ends without publishing (its walk threw)
\* leaves them as they were
C26_InventoryConsistency ==
    /\ [](inventory.pc = "up" => Consistent(Inventory(inventory)))
    /\ [][Inventory(inventory') # Inventory(inventory) /\ inventory'.pc # "boot" =>
             \/ inventory.pc = "boot" /\ Inventory(inventory') = inventory.persisted
             \/ \E i \in 1..Len(inventory'.execs) :
                   /\ inventory'.execs[i].pc = "persist"
                   /\ inventory.execs[i].pc # "persist"
                   /\ inventory'.execs[i].payload = Inventory(inventory')]_vars
    /\ [][Len(inventory'.execs) < Len(inventory.execs) /\ inventory'.pc # "boot" =>
             Inventory(inventory') = Inventory(inventory)]_vars

\* the server answers requests with an inventory of two sources and their
\* pictures, after a later scan threw while walking
C26_Witness ==
    /\ inventory.pc = "up"
    /\ inventory.restarts = 0
    /\ inventory.execs = <<>>
    /\ inventory.published >= 1
    /\ inventory.published < inventory.started
    /\ Len(inventory.sources) = 2
    /\ Len(inventory.pictures) = 2

\* C22 - deleting a data source removes the source and all its pictures
\* together: in no state does the pictures table hold a record whose source
\* is not in the table of data sources, also when the changeset of a scan of
\* that source is applied around the deletion
C22_CascadeDelete ==
    \A p \in pictures : p.sourceId \in dataSources

\* C23 - for a fixed filter, after any sequence of batch loads from the
\* client sources and the server sources, the pictures the grid displays are
\* in descending order of modified
C23_StrictTimestampOrder ==
    LET displayed == groupAndLayoutPictures(grid.items)
    IN \A i \in 1..(Len(displayed) - 1) :
          displayed[i].modified >= displayed[i + 1].modified

\* the identities of the remote pages, and a walk of the remote source that
\* ended before it had seen all of them
RemoteIdentities ==
    UNION {{RemotePages[p][i].url : i \in 1..Len(RemotePages[p])} :
             p \in 1..Len(RemotePages)}
HaltedEarly(sourceId) ==
    /\ observed[sourceId].walked
    /\ {o.keyPart : o \in observed[sourceId].items} # RemoteIdentities

\* C24 - a remote crawl that halts on a request failure before all pages were
\* fetched causes no deletion of the records of that source it did not
\* reach: no id of an existing record of the source is collected in deletes
C24_HaltedCrawlKeepsRecords ==
    \A sourceId \in {RemoteSource.id} :
        HaltedEarly(sourceId) =>
            \A p \in ExistingOf(sourceId) : p.id \notin Range(allDeletes)

\* C25 - for a 'scan' command the worker posts exactly one terminal message,
\* 'complete' or 'error' and never both, and nothing after it: among the
\* messages of a command that wait for the App at most one is terminal, and
\* it is the last one
C25_OneTerminalMessage ==
    LET terminal == {i \in 1..Len(outbox) : outbox[i].type \in {"complete", "error"}}
    IN /\ Cardinality(terminal) <= 1
       /\ \A i \in terminal : i = Len(outbox)

\* the distinct identities on the pages up to page p, and the first page
\* after whose request the crawl has to stop: the request fails, the page has
\* no items, or the cap is reached with the items of the page
IdentitiesUpTo(pages, p) ==
    UNION {{pages[q][i].url : i \in 1..Len(pages[q])} :
             q \in {r \in 1..Len(pages) : r <= p}}
StopsAt(maxImages, pages, failPage, p) ==
    \/ p = failPage
    \/ p > Len(pages)
    \/ pages[p] = <<>>
    \/ maxImages > 0 /\ Cardinality(IdentitiesUpTo(pages, p)) >= maxImages
LastPage(maxImages, pages, failPage) ==
    CHOOSE p \in 1..(Len(pages) + 1) :
        /\ StopsAt(maxImages, pages, failPage, p)
        /\ \A q \in 1..(p - 1) : ~StopsAt(maxImages, pages, failPage, q)

\* C30 - a crawl of a remote source with maxImages configured records no
\* more than maxImages distinct identities, and once a page has yielded no
\* items, the cap is reached or a request has failed, no further page is
\* requested
C30_RemoteCrawlBounds ==
    crawl.pc = "done" =>
        /\ crawl.maxImages > 0 => Cardinality(crawl.seenKeys) <= crawl.maxImages
        /\ crawl.requests <= LastPage(crawl.maxImages, crawl.pages, crawl.failPage)

\* C27 - for a picture of the server inventory and a tier, the cache key the
\* pregeneration batch computes is the key the thumbnail endpoint computes
\* for the request of the same source, file and tier, also when the source
\* name or the path has characters that URLs escape
C27_PregenKeyAgreement ==
    keys.pc = "requested" /\ keys.known /\ keys.width = keys.size =>
        keys.requestKey = keys.pregenKey

\* the entries of a sequence of cache entries
EntrySet(entries) == {entries[i] : i \in 1..Len(entries)}

\* a sweep over the budget takes its eviction step, and every file it ranked
\* is still there to unlink
EvictionStep(o) ==
    /\ sweeps[o].pc = "budget"
    /\ sweeps'[o].pc = "budgetSave"
    /\ \A e \in EntrySet(SortedEntries(cacheMetadata, sweeps[o].fileStats)) :
          e.filename \in DOMAIN cacheFiles

\* C28 - when the byte budget is exceeded the entries are removed in
\* ascending order of (accessCount, modifiedAt) until the total is down to
\* 80% of the budget: when no unlink fails, no entry is evicted while an
\* entry ranked before it survives
C28_EvictionRanking ==
    [][\A o \in Owners :
          EvictionStep(o) =>
             \A e \in EntrySet(cacheMetadata) \ EntrySet(cacheMetadata') :
                \A f \in EntrySet(cacheMetadata) :
                   EntryBefore(f, e) => f \notin EntrySet(cacheMetadata')]_vars

\* a step of the running server that takes items from the pregeneration queue
ItemsTaken ==
    /\ pregen.started /\ pregen'.started
    /\ pregen'.thumbnailPregenQueue # pregen.thumbnailPregenQueue

\* the head of the queue a batch may take
BatchOf(queue) ==
    SubSeq(queue, 1, IF Len(queue) < PREGEN_BATCH_SIZE THEN Len(queue)
                     ELSE PREGEN_BATCH_SIZE)

\* C29 - a pregeneration batch starts only at a tick at which the queue is
\* non-empty, no other batch is running and no cache metadata entry has a
\* modifiedAt within the last 5 seconds; the batch takes at most
\* PREGEN_BATCH_SIZE items from the head of the queue, in the order of the
\* queue; the running flag is set exactly while a batch is in progress, so it
\* is cleared when the batch ends, after a failed item as after a success
C29_IdlePregenGating ==
    /\ [][ItemsTaken =>
            /\ Len(pregen.thumbnailPregenQueue) > 0
            /\ ~pregen.isPregenRunning
            /\ \A i \in 1..Len(cacheMetadata) :
                  srvNow - cacheMetadata[i].modifiedAt >= 5000
            /\ pregen'.isPregenRunning
            /\ pregen'.batch = BatchOf(pregen.thumbnailPregenQueue)
            /\ Len(pregen'.batch) <= PREGEN_BATCH_SIZE
            /\ pregen.thumbnailPregenQueue =
                  pregen'.batch \o pregen'.thumbnailPregenQueue]_vars
    /\ [](pregen.isPregenRunning <=> pregen.ppc # "off")
    /\ [][pregen.ppc = "save" /\ pregen'.ppc # "save"
             => ~pregen'.isPregenRunning]_vars

\* a full batch has ended after the item sharp cannot read had failed, and
\* the item behind the batch is still queued
C29_Witness ==
    /\ pregen.started /\ ~pregen.isPregenRunning
    /\ pregen.thumbnailPregenQueue = <<"e.jpg">>
    /\ getThumbCacheKeyTwitterStyle(ServerSourceName, "d.jpg", 1600) \in DOMAIN cacheFiles
    /\ getThumbCacheKeyTwitterStyle(ServerSourceName, "broken.jpg", 400) \notin DOMAIN cacheFiles

----------------------------------------------------------------------------
(* Claims C31 to C39 *)

\* the messages a step of the worker has posted
Posted == SubSeq(outbox', Len(outbox) + 1, Len(outbox'))

\* the worker walks a remote source and one of its requests fails
RemoteWalkFails ==
    /\ wpc = "walking" /\ widx <= Len(cmd.sources)
    /\ cmd.sources[widx].type = "remote"
    /\ widx' # widx \/ wpc' # wpc
    /\ \E i \in 1..Len(Posted) : Posted[i].type = "error"

\* the changeset under construction reflects an item that was observed
Retained(sourceId, o, adds, updates) ==
    LET key == <<sourceId, o.keyPart>>
    IN  IF ~HasExisting(cmd.existingPictures, key)
        THEN \E a \in Range(adds) :
                a.sourceId = sourceId /\ a.path = o.keyPart /\ a.modified = o.modified
        ELSE \/ GetExisting(cmd.existingPictures, key).modified = o.modified
             \/ \E u \in Range(updates) :
                   /\ u.id = GetExisting(cmd.existingPictures, key).id
                   /\ u.modified = o.modified

\* C31 - when a request for a remote source fails, one error message naming
\* that source is posted, it is the last message of that crawl and every page
\* was requested once (no retry, no further page); the pass is not aborted:
\* the worker goes on to the next source, keeps the items observed on the
\* earlier pages, and the complete message it posts at the end carries the
\* collected adds, updates and deletes
C31_RemoteFailureHaltsOnlyThatCrawl ==
    /\ [][RemoteWalkFails =>
            LET source == cmd.sources[widx]
                errors == {i \in 1..Len(Posted) : Posted[i].type = "error"}
                pages  == ProgressValues(Posted)
            IN  /\ errors = {Len(Posted)}
                /\ Posted[Len(Posted)].source = source.name
                /\ \A i \in 1..Len(pages) : pages[i] = (i % 10) * 10
                /\ wpc' = "walking" /\ cmd' = cmd /\ widx' = widx + 1
                /\ Len(pages) = Cardinality(observed'[source.id].items) + 1
                /\ \A o \in observed'[source.id].items :
                      Retained(source.id, o, allAdds', allUpdates')]_vars
    /\ [][(wpc = "walking" /\ widx > Len(cmd.sources) /\ wpc' = "idle"
              /\ Len(outbox') > Len(outbox)) =>
            /\ Posted[Len(Posted)].type = "complete"
            /\ Posted[Len(Posted)].adds = allAdds
            /\ Posted[Len(Posted)].updates = allUpdates
            /\ Posted[Len(Posted)].deletes = allDeletes]_vars

\* the second request of the feed has failed, and the complete message posted
\* after the error carries the item of the first page
C31_Witness ==
    \E i, j \in 1..Len(outbox) :
        /\ i < j
        /\ outbox[i].type = "error" /\ outbox[i].source = RemoteSource.name
        /\ outbox[j].type = "complete"
        /\ \E a \in Range(outbox[j].adds) : a.path = <<"http://u1">>
        /\ \A a \in Range(outbox[j].adds) : a.path # <<"http://u2">>

\* the folder is one of the disabled folders or lies beneath one, segment by
\* segment
InDisabledFolder(dir, disabledFolders) ==
    \E d \in disabledFolders :
        /\ Len(Split(d)) <= Len(Split(dir))
        /\ SubSeq(Split(dir), 1, Len(Split(d))) = Split(d)

\* the key of the image of a dir
KeyIn(dir) == dir \o <<"/">> \o TreeFileName

\* the image of the dir was observed by the last walk
ObservedIn(dir) ==
    \/ KeyIn(dir) \in tree.results.seenKeys
    \/ \E a \in Range(tree.results.adds) : a.relativePath = dir
    \/ \E u \in Range(tree.results.updates) : u.relativePath = dir

\* C32 - with recursion enabled, no file in a disabled dir or in a dir
\* beneath it is observed (neither in seen keys, adds nor updates), and the
\* file of every other folder is, also when the path of its folder merely
\* starts with the characters of a disabled dir
C32_LocalExclusionList ==
    (tree.walked /\ tree.scanned.includeSubfolders) =>
        \A dir \in FolderPaths :
            /\ InDisabledFolder(dir, tree.scanned.disabledFolders)
                  => ~ObservedIn(dir)
            /\ ~InDisabledFolder(dir, tree.scanned.disabledFolders)
                  => /\ KeyIn(dir) \in tree.results.seenKeys
                     /\ \E a \in Range(tree.results.adds) : a.relativePath = dir

\* a walk with a/b disabled has left out a/b and a/b/c and has seen a/bc
C32_Witness ==
    /\ tree.walked /\ tree.scanned.includeSubfolders
    /\ tree.scanned.disabledFolders = {<<"a", "/", "b">>}
    /\ KeyIn(<<"a", "/", "b", "c">>) \in tree.results.seenKeys
    /\ KeyIn(<<"a", "/", "b", "/", "c">>) \notin tree.results.seenKeys
    /\ KeyIn(<<"a", "/", "b">>) \notin tree.results.seenKeys

\* a rescan that started after the k-th notification is running, or the
\* published inventory lists the folders as they were after it
RescanAfter(k) ==
    \/ \E i \in 1..Len(running) :
          running[i].origin = "rescanTimer" /\ running[i].listed >= k
    \/ serverDataCache.listed >= k

\* C33 - every change notification of the watcher, also one delivered while
\* a rescan is in progress, is eventually followed by a rescan that starts
\* after it, so that the server inventory eventually reflects the change
C33_NoChangeLost ==
    \A k \in 1..MaxEvents : (folder >= k) ~> RescanAfter(k)

\* the picture has been taken from the queue and, when its file can be read,
\* has its three tiers in the cache
Pregenerated(image) ==
    /\ image \in cover.taken
    /\ (image \in cover.disk /\ image \notin UnreadableImages)
          => TiersOf(image) \subseteq cover.cached

\* C34 - when the idleness check succeeds at the driver ticks, every picture
\* of the current server inventory, also one first discovered by a rescan
\* after startup or one of a server that started with an empty inventory, is
\* eventually taken from the queue and ends with its three tiers cached when
\* its file is readable
C34_PregenCoverage ==
    \A image \in Range(CoverImages) :
        (cover.pc = "up" /\ image \in cover.pictures)
           ~> (image \notin cover.pictures \/ Pregenerated(image))

\* the batch takes a step from the place it is at
BatchStep(at) ==
    /\ pregen.ppc = at /\ pregen.isPregenRunning
    /\ pregen'.isPregenRunning
    /\ <<pregen'.ppc, pregen'.item, pregen'.size>> # <<pregen.ppc, pregen.item, pregen.size>>

\* the batch goes on with the item after the one it is at
GoesOnWithNextItem ==
    IF pregen.item < Len(pregen.batch)
    THEN pregen'.item = pregen.item + 1 /\ pregen'.size = 1 /\ pregen'.ppc = "access"
    ELSE pregen'.ppc = "save"

\* C35 - for each item of a batch, a tier whose cache file exists is left
\* untouched (file and metadata entry unchanged), a missing tier is
\* generated, written under its key and recorded in the metadata, and a
\* failure on one item does not stop the remaining items of the batch: after
\* a tier the batch goes on with the next tier, after the last tier or a
\* failure with the next item
C35_PregenOnlyMissingTiers ==
    /\ [][BatchStep("access") =>
            /\ cacheFiles' = cacheFiles /\ cacheMetadata' = cacheMetadata
            /\ (pregen'.ppc = "generate") = (PregenKey(pregen) \notin DOMAIN cacheFiles)
            /\ pregen'.ppc = "generate" => PregenKey(pregen') = PregenKey(pregen)]_vars
    /\ [][pregen'.ppc = "generate" /\ pregen.ppc # "generate"
             => BatchStep("access")]_vars
    /\ [][(BatchStep("generate") /\ pregen.batch[pregen.item] \notin UnreadableImages) =>
            /\ PregenKey(pregen) \in DOMAIN cacheFiles'
            /\ \A p \in DOMAIN cacheFiles \ {PregenKey(pregen)} :
                  p \in DOMAIN cacheFiles' /\ cacheFiles'[p] = cacheFiles[p]
            /\ pregen'.ppc = "record" /\ PregenKey(pregen') = PregenKey(pregen)]_vars
    /\ [][BatchStep("record") =>
            /\ \E i \in 1..Len(cacheMetadata') :
                  /\ cacheMetadata'[i].filename = PregenKey(pregen)
                  /\ cacheMetadata'[i].modifiedAt = srvNow
                  /\ cacheMetadata'[i].accessCount = 1
            /\ \A e \in Range(cacheMetadata) :
                  e.filename # PregenKey(pregen) => e \in Range(cacheMetadata')
            /\ cacheFiles' = cacheFiles]_vars
    /\ [][(BatchStep("generate") /\ pregen.batch[pregen.item] \in UnreadableImages) =>
            /\ cacheFiles' = cacheFiles /\ cacheMetadata' = cacheMetadata
            /\ GoesOnWithNextItem]_vars
    /\ [][((BatchStep("access") \/ BatchStep("record")) /\ pregen'.ppc # "generate") =>
            IF pregen.size < Len(THUMBNAIL_SIZES_ARRAY)
            THEN /\ pregen'.item = pregen.item /\ pregen'.size = pregen.size + 1
                 /\ pregen'.ppc = "access"
            ELSE GoesOnWithNextItem]_vars

\* a batch is at its end: the tier of a.jpg that was cached before the batch
\* has the entry it had, the other two tiers of a.jpg were made, nothing was
\* made for the image that cannot be read, and the items behind it were made
C35_Witness ==
    /\ pregen.ppc = "save" /\ Len(pregen.batch) = PREGEN_BATCH_SIZE
    /\ \E e \in Range(cacheMetadata) :
          e.filename = KeyMedium /\ e.createdAt < ThumbStart
    /\ \A size \in {400, 1600} :
          /\ getThumbCacheKeyTwitterStyle(ServerSourceName, "a.jpg", size) \in DOMAIN cacheFiles
          /\ \E e \in Range(cacheMetadata) :
                /\ e.filename = getThumbCacheKeyTwitterStyle(ServerSourceName, "a.jpg", size)
                /\ e.createdAt >= ThumbStart
    /\ \A size \in {400, 800, 1600} :
          /\ getThumbCacheKeyTwitterStyle(ServerSourceName, "broken.jpg", size) \notin DOMAIN cacheFiles
          /\ getThumbCacheKeyTwitterStyle(ServerSourceName, "d.jpg", size) \in DOMAIN cacheFiles

\* the keys of the thumbnails a previous run has left
InitKeysSet == {InitKeys[i] : i \in 1..Len(InitKeys)}

\* the metadata has an entry under the key, no file backs it, and the entry
\* is older than the TTL
DanglingExpired(key) ==
    /\ key \notin DOMAIN cacheFiles
    /\ \E i \in 1..Len(cacheMetadata) :
          /\ cacheMetadata[i].filename = key
          /\ srvNow - cacheMetadata[i].modifiedAt > CACHE_TTL_MS

\* C36 - a metadata entry whose cache file no longer exists is eventually
\* removed from the metadata by a later load or sweep, also when it is older
\* than the TTL and the unlink of its missing file fails
C36_DanglingEntriesPruned ==
    \A key \in InitKeysSet :
        DanglingExpired(key) ~> (\A i \in 1..Len(cacheMetadata) :
                                    cacheMetadata[i].filename # key)

\* the identity of a record of a changeset: its source and stable identifier
IdentityIn(p) == <<p.sourceId, Identity(p)>>

\* no two places of the sequence hold records of one identity
DistinctBy(s, Key(_)) ==
    \A i, j \in 1..Len(s) : Key(s[i]) = Key(s[j]) => i = j

IdOf(p) == p.id
Itself(x) == x

Finishes(i) == loader'.calls = WithoutCall(loader.calls, i)

StartedUnderOtherVersion(i) == loader.calls[i].version # loader.filterVersion

CurrentBatches ==
    UNION {Range(loader.updates[k].batch) :
              k \in {n \in 1..Len(loader.updates) :
                        /\ ~loader.updates[n].clear
                        /\ loader.updates[n].version = loader.filterVersion}}

C38_StaleBatchDiscarded ==
    /\ [][\A i \in 1..Len(loader.calls) :
             Finishes(i) /\ StartedUnderOtherVersion(i) =>
                /\ loader'.clientOffset = loader.clientOffset
                /\ loader'.serverOffset = loader.serverOffset
                /\ loader'.updates = loader.updates
                /\ loader'.items = loader.items]_vars
    /\ [][Range(loader'.items) \subseteq Range(loader.items) \cup CurrentBatches]_vars

\* a call that started under an earlier filter version was discarded while
\* the grid shows pictures of the filter that replaced it
C38_Witness ==
    /\ loader.outcome = "discarded"
    /\ loader.filterVersion >= 2
    /\ loader.items # <<>>
    /\ loader.clientOffset + loader.serverOffset > 0

\* C39 - Inventory snapshot persistence is crash-safe: whenever the process
\* may die, server-cache.json is missing (no snapshot was persisted yet) or
\* holds the text of one whole snapshot, and a step in which a write of
\* persistServerCache fails leaves server-cache.json as it was.
CacheFileWhole == snap.cachePath = 0 \/ Parses(snap.files[snap.cachePath])

CacheFile(s) == IF s.cachePath = 0 THEN <<>> ELSE s.files[s.cachePath]

WriteFails ==
    \E i \in 1..Len(snap.writers) :
       /\ snap.writers[i].pc = "write"
       /\ snap'.writers = [snap.writers EXCEPT ![i].pc = "unlink"]

C39_CrashSafePersistence ==
    /\ []CacheFileWhole
    /\ [][WriteFails => CacheFile(snap') = CacheFile(snap)]_vars

====
